---- MODULE Spec2Model ----
(***************************************************************************)
(* OProxy: the proxy hierarchy (OProxyContainer / OProxyLeaf /             *)
(* OProxyExtension), its persisted mirror (the OProxies storage item) and  *)
(* the refresh algorithm, modelled from src/OProxyBaseWrapper.py,          *)
(* src/utils.py and src/oproxy.py.                                         *)
(*                                                                         *)
(* Python dicts are insertion ordered; a dict is modelled as a sequence of *)
(* [k, v] entries with distinct keys.  A dotted path string is modelled as *)
(* the sequence of its segments ("" is <<>>, ".items" is <<"", "items">>). *)
(* The in-memory tree is one nested value (mem); a node is addressed by    *)
(* the sequence of child keys that leads to it from the root.              *)
(***************************************************************************)
EXTENDS Integers, Sequences, FiniteSets, TLC

VARIABLES td,        \* the TouchDesigner operators: id -> [name, comp, valid, type]
          renames,   \* number of external renames so far
          mem,       \* the root OProxyContainer with everything below it
          OProxies,  \* the persisted storage item of the root
          last,      \* the last call: [op, err, log]
          steps,     \* number of calls made on the tree so far
          restarts,  \* number of times the root was constructed again
          updating_storage,  \* root._updating_storage (FALSE also when unset)
          frames     \* the calls of root._update_storage that have not returned

vars == <<td, renames, mem, OProxies, last, steps, restarts, updating_storage, frames>>

----------------------------------------------------------------------------
(* Bounds of the model *)

MaxSteps == 4      \* calls on the tree per behaviour
MaxDepth == 2      \* container nesting depth that add may create
MaxRenames == 1    \* external renames per behaviour
MaxRestarts == 1   \* constructions of a new root over the same storage
MaxDestroyed == 1  \* operators destroyed per behaviour
MaxCallbacks == 1  \* calls of _update_storage from inside one running call

None == "None"

----------------------------------------------------------------------------
(* Ordered dictionaries *)

DKeys(d) == {d[i].k : i \in DOMAIN d}

DHas(d, k) == \E i \in DOMAIN d : d[i].k = k

DGet(d, k) == d[CHOOSE i \in DOMAIN d : d[i].k = k].v

DSet(d, k, v) ==
    IF DHas(d, k)
    THEN [i \in DOMAIN d |-> IF d[i].k = k THEN [k |-> k, v |-> v] ELSE d[i]]
    ELSE Append(d, [k |-> k, v |-> v])

DDel(d, k) == SelectSeq(d, LAMBDA e : e.k # k)

\* Python dict equality ignores the order of the keys
DEq(d1, d2) ==
    /\ DKeys(d1) = DKeys(d2)
    /\ \A k \in DKeys(d1) : DGet(d1, k) = DGet(d2, k)

----------------------------------------------------------------------------
(* The external operators (td) *)

OpIds  == {"R1", "R2"}
DatIds == {"D1"}
AllIds == OpIds \cup DatIds

\* an operator's path: the COMP it lives in and its name
path_of(w, r) == [comp |-> w[r].comp, name |-> w[r].name]

\* td.op(path): the valid operator at that path, or None
td_op(w, loc) ==
    IF \E r \in AllIds : w[r].valid /\ path_of(w, r) = loc
    THEN CHOOSE r \in AllIds : w[r].valid /\ path_of(w, r) = loc
    ELSE None

ObjItem(r)   == [str |-> FALSE, ref |-> r,    loc |-> [comp |-> "", name |-> ""]]
StrItem(loc) == [str |-> TRUE,  ref |-> None, loc |-> loc]
NoItem       == [str |-> FALSE, ref |-> None, loc |-> [comp |-> "", name |-> ""]]

\* utils.td_isinstance(value, expected_type): the validated operator, or
\* None when it raises (string that does not resolve, wrong type, not valid)
td_isinstance(w, item, expected_type) ==
    LET value == IF item.str THEN td_op(w, item.loc) ELSE item.ref
    IN  IF value = None THEN None
        ELSE IF expected_type = "textdat" /\ w[value].type # "textDAT" THEN None
        ELSE IF ~w[value].valid THEN None
        ELSE value

----------------------------------------------------------------------------
(* Nodes of the in-memory tree *)

NoPatch == [cls |-> None, dat |-> None]

\* what the model keeps of a _parent reference: whether it refers to the
\* object in whose _children or _extensions map the node is (every
\* constructor call of the code passes that object as parent), or to
\* another object; None for the root
Holder == "holder"
Other  == "other"

OProxyLeaf(op, path) ==
    [kind |-> "leaf", path |-> path, op |-> op, children |-> <<>>,
     extensions |-> <<>>, monkey_patch |-> NoPatch, parent |-> Holder]

OProxyContainer(path) ==
    [kind |-> "container", path |-> path, op |-> None, children |-> <<>>,
     extensions |-> <<>>, monkey_patch |-> NoPatch,
     parent |-> IF path = <<>> THEN None ELSE Holder]

RECURSIVE NodeAt(_, _)
NodeAt(root, kp) ==
    IF kp = <<>> THEN root
    ELSE NodeAt(DGet(root.children, Head(kp)), Tail(kp))

RECURSIVE PutAt(_, _, _)
PutAt(root, kp, n) ==
    IF kp = <<>> THEN n
    ELSE [root EXCEPT !.children =
            DSet(root.children, Head(kp),
                 PutAt(DGet(root.children, Head(kp)), Tail(kp), n))]

RECURSIVE HasAt(_, _)
HasAt(root, kp) ==
    \/ kp = <<>>
    \/ /\ DHas(root.children, Head(kp))
       /\ HasAt(DGet(root.children, Head(kp)), Tail(kp))

\* key paths of the containers / leaves reachable from the root
RECURSIVE ContainerPaths(_)
ContainerPaths(c) ==
    {<<>>} \cup UNION { {<<c.children[i].k>> \o p : p \in ContainerPaths(c.children[i].v)} :
                        i \in {j \in DOMAIN c.children : c.children[j].v.kind = "container"} }

LeafPaths(root) ==
    UNION { {Append(kp, e.k) : e \in {NodeAt(root, kp).children[i] :
                 i \in {j \in DOMAIN NodeAt(root, kp).children :
                        NodeAt(root, kp).children[j].v.kind = "leaf"}}} :
            kp \in ContainerPaths(root) }

----------------------------------------------------------------------------
(* Serialization: OProxyContainer._build_storage_structure *)

\* OProxyExtension._build_storage_structure and the comprehension over
\* _extensions: {name: {'metadata': ext._metadata, 'extensions': ...}}
RECURSIVE ext_storage(_)
ext_storage(exts) ==
    [i \in DOMAIN exts |->
        [k |-> exts[i].k,
         v |-> [metadata |-> exts[i].v.metadata,
                extensions |-> ext_storage(exts[i].v.extensions)]]]

\* ext._metadata exists only on an OProxyExtension: a raw stored record in
\* an _extensions map makes the comprehension raise AttributeError
RECURSIVE exts_ok(_)
exts_ok(exts) ==
    \A i \in DOMAIN exts : ~exts[i].v.raw /\ exts_ok(exts[i].v.extensions)

\* bool(node): OProxyContainer.__len__ counts the leaf children, so a
\* container without leaves is false; leaves and extensions are true
truthy(node) ==
    node.kind = "container" => \E i \in DOMAIN node.children : node.children[i].v.kind = "leaf"

\* "root = ...; while root and root._parent is not None: root = root._parent;
\* if hasattr(root, 'OProxies')", started at the node at np or at an
\* extension below it: TRUE iff the loop arrives at the root, which it does
\* unless it stops at a container without leaves on the way
reaches_root(root, np) ==
    \A k \in 1..Len(np) : truthy(NodeAt(root, SubSeq(np, 1, k)))

ContainerEntries(c) == SelectSeq(c.children, LAMBDA e : e.v.kind = "container")
LeafEntries(c)      == SelectSeq(c.children, LAMBDA e : e.v.kind = "leaf")

ops_storage(w, c) ==
    LET ls == LeafEntries(c)
    IN  [i \in DOMAIN ls |->
            [k |-> ls[i].k,
             v |-> [path |-> path_of(w, ls[i].v.op), op |-> ls[i].v.op,
                    extensions |-> ext_storage(ls[i].v.extensions),
                    monkey_patch |-> ls[i].v.monkey_patch]]]

RECURSIVE build_storage_structure(_, _)
build_storage_structure(w, c) ==
    LET cs == ContainerEntries(c)
    IN  [i \in DOMAIN cs |->
            [k |-> cs[i].k,
             v |-> [children |-> build_storage_structure(w, cs[i].v),
                    ops |-> ops_storage(w, cs[i].v),
                    extensions |-> ext_storage(cs[i].v.extensions),
                    monkey_patch |-> cs[i].v.monkey_patch]]]

\* TRUE iff _build_storage_structure returns instead of raising
RECURSIVE build_ok(_)
build_ok(c) ==
    \A i \in DOMAIN c.children :
        c.children[i].v.kind = "container" =>
            /\ exts_ok(c.children[i].v.extensions)
            /\ \A j \in DOMAIN c.children[i].v.children :
                  c.children[i].v.children[j].v.kind = "leaf" =>
                      exts_ok(c.children[i].v.children[j].v.extensions)
            /\ build_ok(c.children[i].v)

\* "'path': op_child._op.path": td raises tdError for a member of an operator
\* that has been destroyed.  TRUE iff no leaf of a container below c is bound
\* to such an operator.
RECURSIVE ops_valid(_, _)
ops_valid(w, c) ==
    \A i \in DOMAIN c.children :
        c.children[i].v.kind = "container" =>
            /\ \A j \in DOMAIN c.children[i].v.children :
                  c.children[i].v.children[j].v.kind = "leaf" =>
                      w[c.children[i].v.children[j].v.op].valid
            /\ ops_valid(w, c.children[i].v)

\* what a call leaves behind: the tree, the storage item, the exception it
\* raised ("" when it returned) and the last message it logged, or the
\* message of the exception when nothing is logged
Result(m, s, e) == [mem |-> m, store |-> s, err |-> e, log |-> ""]

Log(r, msg) == [r EXCEPT !.log = msg]

\* a message that is logged after the call that r is the outcome of returned
LogOk(r, msg) == IF r.err = "" THEN Log(r, msg) ELSE r

\* OProxyContainer.__save_to_storage: rewrites 'children' only
save_to_storage(w, root, store) ==
    IF ~ops_valid(w, root) THEN Result(root, store, "tdError")
    ELSE IF build_ok(root)
    THEN Result(root, [store EXCEPT !.children = build_storage_structure(w, root)], "")
    ELSE Result(root, store, "AttributeError")

\* OProxyContainer._update_storage: rewrites 'children', then 'extensions'
update_storage(w, root, store) ==
    IF ~ops_valid(w, root) THEN Result(root, store, "tdError")
    ELSE IF ~build_ok(root) THEN Result(root, store, "AttributeError")
    ELSE IF ~exts_ok(root.extensions)
         THEN Result(root, [store EXCEPT !.children = build_storage_structure(w, root)],
                     "AttributeError")
    ELSE Result(root, [children |-> build_storage_structure(w, root),
                       extensions |-> ext_storage(root.extensions)], "")

----------------------------------------------------------------------------
(* Names *)

\* the names the model passes to _add
Names == {"items", "nest", "test space", "path"}

\* str.isidentifier() on the names of the model
isidentifier(name) == name \notin {"test space", ""}

\* keyword.iskeyword() on the names of the model
iskeyword(name) == name \in {"class", "def", "for", "if"}

reserved_names ==
    {"_children", "_path", "_parent", "_ownerComp", "_is_root", "_op",
     "path", "parent", "is_root",
     "_add", "_remove", "_tree", "_refresh", "__save_to_storage", "__find_root",
     "__build_storage_structure", "__load_nested_containers", "_validate_child_name",
     "__str__", "__repr__", "__len__", "__iter__", "__getitem__", "__call__",
     "__getattr__", "__setattr__"}

\* OProxyContainer._validate_child_name: TRUE iff it returns (every failure
\* is a ValueError)
validate_child_name(container, name) ==
    /\ name # ""
    /\ isidentifier(name)
    /\ ~iskeyword(name)
    /\ name \notin reserved_names
    /\ DHas(container.children, name) => DGet(container.children, name).kind = "container"

----------------------------------------------------------------------------
(* _add *)

\* "for validated_op in validated_ops: container._children[name] = leaf"
RECURSIVE add_leaves(_, _, _, _)
add_leaves(w, children, cpath, validated_ops) ==
    IF validated_ops = <<>> THEN children
    ELSE LET r == Head(validated_ops)
         IN  add_leaves(w, DSet(children, w[r].name,
                                OProxyLeaf(r, Append(cpath, w[r].name))),
                        cpath, Tail(validated_ops))

\* OProxyContainer._add_init: create container `name` under the node at kp
add_init(w, root, store, kp, name, op_list) ==
    LET self      == NodeAt(root, kp)
        validated == [i \in DOMAIN op_list |-> td_isinstance(w, op_list[i], "op")]
        child_path == IF self.path # <<>> THEN Append(self.path, name) ELSE <<name>>
        container == [OProxyContainer(child_path) EXCEPT
                        !.children = add_leaves(w, <<>>, child_path, validated)]
        root2     == PutAt(root, kp,
                           [self EXCEPT !.children = DSet(self.children, name, container)])
    IN  IF ~validate_child_name(self, name)
        THEN Log(Result(root, store, "ValueError"), "_validate_child_name")
        ELSE IF \E i \in DOMAIN validated : validated[i] = None
             THEN Log(Result(root, store, "ValueError"), "_add_init: Failed to validate OP")
        ELSE Log(save_to_storage(w, root2, store), "Successfully created container")

\* an _add_insert that binds each resource as soon as it is validated, so
\* the resources before an invalid one are bound when it raises
add_insert_partial(w, root, store, kp, name, op_list) ==
    LET container == NodeAt(root, Append(kp, name))
        validated == [i \in DOMAIN op_list |-> td_isinstance(w, op_list[i], "op")]
        fresh     == SelectSeq(validated,
                         LAMBDA r : r # None /\ ~DHas(container.children, w[r].name))
        root2     == PutAt(root, Append(kp, name),
                           [container EXCEPT !.children =
                               add_leaves(w, container.children, container.path, fresh)])
    IN  IF \E i \in DOMAIN validated : validated[i] = None
        THEN Log(Result(root2, store, "ValueError"), "_add_insert: Failed to validate OP")
        ELSE IF Len(fresh) > 0
             THEN Log(save_to_storage(w, root2, store), "Successfully added OPs")
        ELSE Log(Result(root, store, ""), "No new OPs to add")

\* OProxyContainer._add_insert: add to the existing container `name` under kp
add_insert(w, root, store, kp, name, op_list) ==
    LET container == NodeAt(root, Append(kp, name))
        validated == [i \in DOMAIN op_list |-> td_isinstance(w, op_list[i], "op")]
        \* the ops that pass validation and are not skipped as already present
        fresh     == SelectSeq(validated,
                         LAMBDA r : r # None /\ ~DHas(container.children, w[r].name))
        root2     == PutAt(root, Append(kp, name),
                           [container EXCEPT !.children =
                               add_leaves(w, container.children, container.path, fresh)])
    IN  IF \E i \in DOMAIN validated : validated[i] = None
        THEN Log(Result(root, store, "ValueError"), "_add_insert: Failed to validate OP")
        ELSE IF Len(fresh) > 0
             THEN Log(save_to_storage(w, root2, store), "Successfully added OPs")
        ELSE Log(Result(root, store, ""), "No new OPs to add")

\* an _add that inserts into whatever child has the name, container or not
add_any_existing(w, root, store, kp, name, op_list) ==
    IF DHas(NodeAt(root, kp).children, name)
    THEN add_insert(w, root, store, kp, name, op_list)
    ELSE add_init(w, root, store, kp, name, op_list)

\* OProxyContainer._add(name, op) called on the container at kp
add(w, root, store, kp, name, op_list) ==
    LET self == NodeAt(root, kp)
    IN  IF DHas(self.children, name)
        THEN IF DGet(self.children, name).kind = "container"
             THEN add_insert(w, root, store, kp, name, op_list)
             ELSE Log(Result(root, store, "ValueError"),
                      "Cannot add container - already exists as OP")
        ELSE add_init(w, root, store, kp, name, op_list)

----------------------------------------------------------------------------
(* _remove *)

Last(s) == s[Len(s)]
Front(s) == SubSeq(s, 1, Len(s) - 1)

\* "del current_dict['children'][container_name]" after walking path_parts
RECURSIVE storage_del(_, _, _)
storage_del(branch, path_parts, container_name) ==
    IF path_parts = <<>>
    THEN [branch EXCEPT !.children = DDel(@, container_name)]
    ELSE IF DHas(branch.children, Head(path_parts))
         THEN [branch EXCEPT !.children =
                  DSet(@, Head(path_parts),
                       storage_del(DGet(branch.children, Head(path_parts)),
                                   Tail(path_parts), container_name))]
         ELSE branch

\* utils.remove(container, storage_dict, parent_path)
utils_remove(container, storage_dict, parent_path) ==
    IF parent_path # <<>>
    THEN storage_del(storage_dict, parent_path,
                     IF container.path = <<>> THEN "" ELSE Last(container.path))
    ELSE IF container.path = <<>> THEN storage_del(storage_dict, <<>>, "root")
         ELSE IF Len(container.path) = 1
              THEN storage_del(storage_dict, <<>>, container.path[1])
              ELSE storage_dict   \* a dotted string is no key of 'children'

\* a _remove that cleans the storage but leaves the child in _children
remove_storage_only(w, root, store, kp, name) ==
    LET self == NodeAt(root, kp)
    IN  IF DHas(self.children, name)
        THEN Log(save_to_storage(w, root,
                                 utils_remove(DGet(self.children, name), store, self.path)),
                 "Removing child")
        ELSE Log(Result(root, store, ""), "Child not found")

\* OProxyContainer._remove(name), case 3, called on the container at kp
remove(w, root, store, kp, name) ==
    LET self == NodeAt(root, kp)
        container_to_remove == DGet(self.children, name)
        root2 == PutAt(root, kp, [self EXCEPT !.children = DDel(self.children, name)])
    IN  IF DHas(self.children, name)
        THEN Log(save_to_storage(w, root2,
                                 utils_remove(container_to_remove, store, self.path)),
                 "Removing child")
        ELSE Log(Result(root, store, ""), "Child not found")

\* OProxyContainer._remove(), case 1, called on the container at kp: it finds
\* its own key in the parent's children by identity and deletes it
remove_self(w, root, store, kp) ==
    IF kp = <<>> THEN Log(Result(root, store, ""), "Cannot remove root container")
    ELSE remove(w, root, store, Front(kp), Last(kp))

\* OProxyLeaf._remove() on the leaf at lp: it finds its own key in the
\* parent's children by identity, deletes it and saves
leaf_remove(w, root, store, lp) ==
    LET parent_container == NodeAt(root, Front(lp))
        self  == NodeAt(root, lp)
        root2 == PutAt(root, Front(lp),
                       [parent_container EXCEPT !.children = DDel(@, Last(lp))])
    IN  Log(save_to_storage(w, root2, utils_remove(self, store, parent_container.path)),
            "Removing leaf")

\* OProxyContainer._remove([names]), case 2, called on the container at kp:
\* one single-name removal per element; an exception of one ends the call
RECURSIVE remove_names(_, _, _, _, _)
remove_names(w, root, store, kp, names) ==
    IF names = <<>> THEN Result(root, store, "")
    ELSE LET r == remove(w, root, store, kp, Head(names))
         IN  IF r.err # "" \/ Len(names) = 1 THEN r
             ELSE remove_names(w, r.mem, r.store, kp, Tail(names))

----------------------------------------------------------------------------
(* The code extractor: mod_AST.Main *)

\* the symbols defined in the text of the source DAT, by kind and base class
DatText ==
    [hello        |-> [kind |-> "def",   base |-> None],
     myClass      |-> [kind |-> "class", base |-> "object"],
     ResolutionMP |-> [kind |-> "class", base |-> "OProxyContainer"],
     helloWorld   |-> [kind |-> "class", base |-> "OProxyLeaf"]]

NoObj == [ok |-> FALSE, kind |-> None, base |-> None]

\* mod_AST.Main(cls, func, source_dat): the extracted object, or ok = FALSE
\* when it raises (source is no text DAT, symbol absent or of the other kind)
Main(w, cls, func, source_dat) ==
    LET target_name == IF cls # None THEN cls ELSE func
        target_type == IF cls # None THEN "class" ELSE "def"
        dat == td_isinstance(w, source_dat, "textdat")
    IN  IF (cls = None /\ func = None) \/ (cls # None /\ func # None) THEN NoObj
        ELSE IF dat = None THEN NoObj
        ELSE IF target_name \notin DOMAIN DatText THEN NoObj
        ELSE IF DatText[target_name].kind # target_type THEN NoObj
        ELSE [ok |-> TRUE, kind |-> target_type, base |-> DatText[target_name].base]

----------------------------------------------------------------------------
(* _refresh of a container *)

NotFound == [found |-> FALSE, data |-> [children |-> <<>>, ops |-> <<>>,
                                        extensions |-> <<>>, monkey_patch |-> NoPatch]]

RECURSIVE stored_at(_, _)
stored_at(current_data, path_segments) ==
    IF path_segments = <<>> THEN NotFound
    ELSE IF DHas(current_data, Head(path_segments))
         THEN IF Len(path_segments) = 1
              THEN [found |-> TRUE, data |-> DGet(current_data, Head(path_segments))]
              ELSE stored_at(DGet(current_data, Head(path_segments)).children,
                             Tail(path_segments))
         ELSE NotFound

\* OProxyContainer._get_stored_container_data: follows the segments of the
\* node's own path, empty segments filtered out
get_stored_container_data(store, self) ==
    stored_at(store.children, SelectSeq(self.path, LAMBDA seg : seg # ""))

\* a stored extensions dict put into an _extensions map as it is: its values
\* are stored records, not OProxyExtension objects
RECURSIVE raw_extensions(_)
raw_extensions(extensions_data) ==
    [i \in DOMAIN extensions_data |->
        [k |-> extensions_data[i].k,
         v |-> [raw |-> TRUE, metadata |-> extensions_data[i].v.metadata,
                extensions |-> raw_extensions(extensions_data[i].v.extensions),
                parent |-> None]]]

\* "op = td.op(op_path) ...; if not (op and op.valid) and stored_op and
\* stored_op.valid: op = stored_op": the operator of a stored entry, or None
resolve_stored_op(w, op_info) ==
    LET op == td_op(w, op_info.path)
    IN  IF op # None THEN op
        ELSE IF op_info.op # None /\ w[op_info.op].valid THEN op_info.op
        ELSE None

\* a loop of _refresh_ops that puts each rebuilt leaf in front of the ones
\* built before it
RECURSIVE rebuild_children_in_front(_, _, _, _)
rebuild_children_in_front(w, self_path, ops_data, new_children) ==
    IF ops_data = <<>> THEN new_children
    ELSE LET op_info == Head(ops_data).v
             op == resolve_stored_op(w, op_info)
             leaf == [OProxyLeaf(op, Append(self_path, w[op].name)) EXCEPT
                        !.extensions = raw_extensions(op_info.extensions)]
         IN  rebuild_children_in_front(w, self_path, Tail(ops_data),
                 IF op # None
                 THEN <<[k |-> w[op].name, v |-> leaf]>>
                      \o SelectSeq(new_children, LAMBDA e : e.k # w[op].name)
                 ELSE new_children)

\* the loop of _refresh_ops over ops_data, building new_children
RECURSIVE rebuild_children(_, _, _, _)
rebuild_children(w, self_path, ops_data, new_children) ==
    IF ops_data = <<>> THEN new_children
    ELSE LET op_info == Head(ops_data).v
             op == resolve_stored_op(w, op_info)
             leaf == [OProxyLeaf(op, Append(self_path, w[op].name)) EXCEPT
                        !.extensions = raw_extensions(op_info.extensions)]
         IN  rebuild_children(w, self_path, Tail(ops_data),
                 IF op # None THEN DSet(new_children, w[op].name, leaf)
                 ELSE new_children)

\* OProxyContainer._refresh_ops
refresh_ops(w, store, self) ==
    LET stored_data == get_stored_container_data(store, self)
    IN  IF self.path = <<>> THEN self
        ELSE IF ~stored_data.found THEN self
        ELSE [self EXCEPT !.children =
                 rebuild_children(w, self.path, stored_data.data.ops, <<>>)]

\* one pass of the loop of _refresh_extensions over a stored entry: how the
\* pass ends.  "dat_path = metadata['dat_path']" reads the stored record
\* {'metadata', 'extensions'} itself (KeyError when it has no such key); an
\* entry whose DAT does not resolve is skipped; past that, "mod_ast.Main(...)"
\* uses a name the method never binds (NameError).
refresh_extension_entry(w, metadata) ==
    IF "dat_path" \notin DOMAIN metadata THEN "KeyError"
    ELSE IF resolve_stored_op(w, [path |-> metadata.dat_path,
                                  op |-> metadata.dat_op]) = None
         THEN "Could not resolve DAT"
    ELSE "NameError"

\* OProxyContainer._refresh_extensions: every exception of a pass is caught
\* inside the loop, and no pass reaches "self._extensions[ext_name] =
\* extension", so the container is left as it is
refresh_extensions(w, store, self) ==
    LET stored_data == get_stored_container_data(store, self)
        passes == [i \in DOMAIN stored_data.data.extensions |->
                      refresh_extension_entry(w, stored_data.data.extensions[i].v)]
    IN  IF ~stored_data.found THEN self
        ELSE IF \A i \in DOMAIN passes :
                   passes[i] \in {"KeyError", "Could not resolve DAT", "NameError"}
             THEN self
        ELSE self

\* the loop over ops_data in _load_nested_containers; err when re-creating a
\* monkey-patched leaf raises
RECURSIVE load_ops(_, _, _, _)
load_ops(w, container_path, ops_data, children) ==
    IF ops_data = <<>> THEN [children |-> children, err |-> FALSE]
    ELSE LET op_info == Head(ops_data).v
             op == resolve_stored_op(w, op_info)
             leaf_path == Append(container_path, w[op].name)
             patched == op_info.monkey_patch # NoPatch
             extracted == Main(w, op_info.monkey_patch.cls, None,
                               StrItem(op_info.monkey_patch.dat))
             leaf == [OProxyLeaf(op, leaf_path) EXCEPT
                        !.monkey_patch = op_info.monkey_patch,
                        !.extensions = raw_extensions(op_info.extensions)]
         IN  IF op = None THEN load_ops(w, container_path, Tail(ops_data), children)
             ELSE IF patched /\ ~extracted.ok THEN [children |-> children, err |-> TRUE]
             ELSE load_ops(w, container_path, Tail(ops_data),
                           DSet(children, w[op].name, leaf))

\* OProxyContainer._load_nested_containers(parent_container, children_data,
\* parent_path): [c |-> the parent container afterwards, err |-> it raised]
RECURSIVE load_nested_containers(_, _, _, _)
load_nested_containers(w, parent_container, children_data, parent_path) ==
    IF children_data = <<>> THEN [c |-> parent_container, err |-> FALSE]
    ELSE LET container_name == Head(children_data).k
             container_data == Head(children_data).v
             \* f"{parent_path}.{container_name}"
             container_path == IF parent_path = <<>> THEN <<"", container_name>>
                               ELSE Append(parent_path, container_name)
             patched == container_data.monkey_patch # NoPatch
             extracted == Main(w, container_data.monkey_patch.cls, None,
                               StrItem(container_data.monkey_patch.dat))
             container == [OProxyContainer(container_path) EXCEPT
                             !.monkey_patch = container_data.monkey_patch,
                             !.extensions = raw_extensions(container_data.extensions)]
             ops == load_ops(w, container_path, container_data.ops, <<>>)
             nested == load_nested_containers(w,
                           [container EXCEPT !.children = ops.children],
                           container_data.children, container_path)
         IN  IF patched /\ ~extracted.ok THEN [c |-> parent_container, err |-> TRUE]
             ELSE IF ops.err \/ nested.err THEN [c |-> parent_container, err |-> TRUE]
             ELSE load_nested_containers(w,
                      [parent_container EXCEPT !.children =
                          DSet(parent_container.children, container_name, nested.c)],
                      Tail(children_data), parent_path)

\* the loop of root._refresh over OProxies['extensions']: dat_path and
\* dat_op are read with .get() from the stored record {'metadata',
\* 'extensions'} itself; a record without them gives dat = None and "Invalid
\* DAT" is raised and caught for that entry, a record whose DAT resolves is
\* registered again
RECURSIVE load_root_extensions(_, _, _)
load_root_extensions(w, extensions_data, self) ==
    IF extensions_data = <<>> THEN self
    ELSE LET ext_name     == Head(extensions_data).k
             ext_metadata == Head(extensions_data).v
             resolves == /\ "dat_path" \in DOMAIN ext_metadata
                         /\ "dat_op" \in DOMAIN ext_metadata
                         /\ resolve_stored_op(w, [path |-> ext_metadata.dat_path,
                                                  op |-> ext_metadata.dat_op]) # None
         IN  load_root_extensions(w, Tail(extensions_data),
                 IF resolves
                 THEN [self EXCEPT !.extensions =
                          DSet(self.extensions, ext_name,
                               [raw |-> FALSE, metadata |-> ext_metadata,
                                extensions |-> <<>>, parent |-> Holder])]
                 ELSE self)

\* OProxyContainer._refresh called on the container at kp.  It catches every
\* exception; each refreshed container ends with root._update_storage().
RECURSIVE refresh(_, _, _, _)
RECURSIVE refresh_each(_, _, _, _, _)
refresh_each(w, root, store, kp, keys) ==
    IF keys = <<>> THEN Result(root, store, "")
    ELSE LET r == refresh(w, root, store, Append(kp, Head(keys)))
         IN  refresh_each(w, r.mem, r.store, kp, Tail(keys))

refresh(w, root, store, kp) ==
    LET keys(entries) == [i \in DOMAIN entries |-> entries[i].k]
        \* the except clause: a failure of the sync is logged, not raised
        ended(synced) ==
            Log(Result(synced.mem, synced.store, ""),
                IF synced.err # "" THEN "Container refresh failed" ELSE "")
        \* root._update_storage() after the containers below
        sync(below) == ended(update_storage(w, below.mem, below.store))
        \* _refresh of each container child of the refreshed node self2
        descend(self2) ==
            sync(refresh_each(w, PutAt(root, kp, self2), store, kp,
                              keys(ContainerEntries(self2))))
        \* the root loads its stored extensions after its stored children
        extensions(loaded) ==
            IF loaded.err
            THEN Log(Result(PutAt(root, kp, loaded.c), store, ""), "Container refresh failed")
            ELSE descend(IF kp = <<>>
                         THEN load_root_extensions(w, store.extensions, loaded.c)
                         ELSE loaded.c)
        \* the root loads its stored children into the node self1
        nested(self1) ==
            extensions(IF kp = <<>> /\ store.children # <<>>
                       THEN load_nested_containers(w, self1, store.children, <<>>)
                       ELSE [c |-> self1, err |-> FALSE])
    IN  nested(refresh_extensions(w, store, refresh_ops(w, store, NodeAt(root, kp))))

\* "isinstance(op_info, str)": an entry of the old storage format is the
\* path string of its operator alone
is_str(op_info) == "str" \in DOMAIN op_info /\ op_info.str

\* check_for_old_format: some ops entry, at any depth, is a string
RECURSIVE check_for_old_format(_)
check_for_old_format(children) ==
    \E i \in DOMAIN children :
        \/ \E j \in DOMAIN children[i].v.ops : is_str(children[i].v.ops[j].v)
        \/ check_for_old_format(children[i].v.children)

\* a migration that keeps the string entries whose path does not resolve
migrate_ops_keeps_unresolved(w, ops) ==
    [i \in DOMAIN ops |->
        IF is_str(ops[i].v) /\ td_op(w, ops[i].v.loc) # None
        THEN [k |-> ops[i].k,
              v |-> [path |-> ops[i].v.loc, op |-> td_op(w, ops[i].v.loc),
                     extensions |-> <<>>, monkey_patch |-> NoPatch]]
        ELSE ops[i]]

\* the loop of migrate_container_ops over container_data['ops']: a string
\* whose path resolves becomes {'path', 'op', 'extensions': {}} (no
\* 'monkey_patch' key: read back as None), a string whose path does not
\* resolve is left out, every other entry is copied
migrate_ops(w, ops) ==
    LET kept == SelectSeq(ops, LAMBDA e : is_str(e.v) => td_op(w, e.v.loc) # None)
    IN  [i \in DOMAIN kept |->
            IF is_str(kept[i].v)
            THEN [k |-> kept[i].k,
                  v |-> [path |-> kept[i].v.loc, op |-> td_op(w, kept[i].v.loc),
                         extensions |-> <<>>, monkey_patch |-> NoPatch]]
            ELSE kept[i]]

\* migrate_container_ops over the containers of a children dict
RECURSIVE migrate_container_ops(_, _)
migrate_container_ops(w, children) ==
    [i \in DOMAIN children |->
        [k |-> children[i].k,
         v |-> [children[i].v EXCEPT
                  !.ops = migrate_ops(w, @),
                  !.children = migrate_container_ops(w, @)]]]

\* root._migrate_storage_format: the storage is rewritten only when
\* check_for_old_format found a string entry
migrate_storage_format(w, store) ==
    IF check_for_old_format(store.children)
    THEN [store EXCEPT !.children = migrate_container_ops(w, @)]
    ELSE store

\* "Storage migration completed" is logged when needs_migration was set; the
\* model's log keeps the first failure of the refresh that follows
migration_log(needs_migration, r) ==
    IF needs_migration /\ r.log = "" THEN Log(r, "Storage migration completed") ELSE r

\* oproxy.root.__init__: a new root object over the same storage, migrated
\* and then refreshed
restart(w, store) ==
    migration_log(check_for_old_format(store.children),
                  refresh(w, OProxyContainer(<<>>), migrate_storage_format(w, store), <<>>))

----------------------------------------------------------------------------
(* _extend *)

\* attributes every OProxyContainer has from its class: hasattr() finds them
ContainerAttrs ==
    {"path", "parent", "is_root", "_add", "_remove", "_tree", "_refresh", "_extend",
     "_clear", "_storage", "_find_root", "_validate_child_name", "_add_init",
     "_add_insert", "_save_to_storage", "_update_storage", "_build_storage_structure"}

\* attributes the model's operators have: a leaf delegates getattr to its op
OpAttrs == {"name", "path", "valid", "par", "OPType"}

metadata_of(w, cls, func, dat) ==
    [cls |-> cls, func |-> func, dat_path |-> path_of(w, dat), dat_op |-> dat,
     args |-> None, call |-> FALSE]

OProxyExtension(metadata) ==
    [raw |-> FALSE, metadata |-> metadata, extensions |-> <<>>, parent |-> Holder]

\* the messages of the ValueError that the checks of _extend raise
ParamsMessage == "Must specify exactly one of 'cls' or 'func'"
ChildConflict == "conflicts with existing container/leaf"
ExtensionPatch == "Monkey-patching extensions not supported"
AttrConflict  == "conflicts with existing method/property"

\* the shared head of every _extend: the parameter checks
extend_params_ok(cls, func, dat) ==
    /\ ~(cls = None /\ func = None /\ dat # NoItem)
    /\ ~((cls # None /\ func # None) \/ (cls = None /\ func = None))
    /\ dat # NoItem

\* "for child in new_instance._children.values(): child._parent =
\* new_instance" and the same loop over _extensions: every entry of the map
\* gets the parent reference to
repoint(entries, to) ==
    [i \in DOMAIN entries |->
        [k |-> entries[i].k, v |-> [entries[i].v EXCEPT !.parent = to]]]

\* the loop over _extensions stops with AttributeError at the first value
\* that is a stored record (a dict takes no attribute): the extensions
\* before it were given the new parent
repoint_until_raw(entries, to) ==
    [i \in DOMAIN entries |->
        IF \A j \in 1..i : ~entries[j].v.raw
        THEN [k |-> entries[i].k, v |-> [entries[i].v EXCEPT !.parent = to]]
        ELSE entries[i]]

\* a monkey patch that builds the new instance but leaves the parent
\* references of the children and extensions at the instance it replaces
monkey_patch_keeps_parents(w, root, store, kp, attr_name, cls, dat) ==
    LET self      == NodeAt(root, kp)
        existing  == DGet(self.children, attr_name)
        extracted == Main(w, cls, None, dat)
        wanted    == IF existing.kind = "container" THEN "OProxyContainer" ELSE "OProxyLeaf"
        dat_op    == td_isinstance(w, dat, "textdat")
        new_instance == [existing EXCEPT
                           !.children = repoint(@, Other),
                           !.extensions = repoint(@, Other),
                           !.monkey_patch = [cls |-> cls, dat |-> path_of(w, dat_op)]]
        root2     == PutAt(root, kp, [self EXCEPT !.children =
                                         DSet(self.children, attr_name, new_instance)])
    IN  IF cls = None THEN Result(root, store, "ValueError")
        ELSE IF DHas(self.extensions, attr_name)
             THEN Result(root, store, "NotImplementedError")
        ELSE IF ~DHas(self.children, attr_name) THEN Result(root, store, "ValueError")
        ELSE IF ~extracted.ok THEN Result(root, store, "RuntimeError")
        ELSE IF extracted.base # wanted THEN Result(root, store, "TypeError")
        ELSE LogOk(update_storage(w, root2, store), "Monkey-patched")

\* a monkey patch that refuses a child that carries a monkey-patch record
monkey_patch_once(w, root, store, kp, attr_name, cls, dat) ==
    LET self      == NodeAt(root, kp)
        existing  == DGet(self.children, attr_name)
        extracted == Main(w, cls, None, dat)
        wanted    == IF existing.kind = "container" THEN "OProxyContainer" ELSE "OProxyLeaf"
        dat_op    == td_isinstance(w, dat, "textdat")
        new_instance == [existing EXCEPT
                           !.monkey_patch = [cls |-> cls, dat |-> path_of(w, dat_op)]]
        root2     == PutAt(root, kp, [self EXCEPT !.children =
                                         DSet(self.children, attr_name, new_instance)])
    IN  IF cls = None THEN Result(root, store, "ValueError")
        ELSE IF DHas(self.extensions, attr_name)
             THEN Log(Result(root, store, "NotImplementedError"), ExtensionPatch)
        ELSE IF ~DHas(self.children, attr_name) THEN Result(root, store, "ValueError")
        ELSE IF existing.monkey_patch # NoPatch
             THEN Log(Result(root, store, "NotImplementedError"), ExtensionPatch)
        ELSE IF ~extracted.ok THEN Result(root, store, "RuntimeError")
        ELSE IF extracted.base # wanted THEN Result(root, store, "TypeError")
        ELSE LogOk(update_storage(w, root2, store), "Monkey-patched")

\* the monkey_patch=True branch of OProxyContainer._extend on the node at
\* kp.  The new instance takes over the maps of the existing child; the
\* parent references of their values are set to the new instance, which is
\* an object outside the tree until "self._children[attr_name] =
\* new_instance" is reached.
monkey_patch(w, root, store, kp, attr_name, cls, dat) ==
    LET self      == NodeAt(root, kp)
        existing  == DGet(self.children, attr_name)
        extracted == Main(w, cls, None, dat)
        wanted    == IF existing.kind = "container" THEN "OProxyContainer" ELSE "OProxyLeaf"
        dat_op    == td_isinstance(w, dat, "textdat")
        new_instance == [existing EXCEPT
                           !.children = repoint(@, Holder),
                           !.extensions = repoint(@, Holder),
                           !.monkey_patch = [cls |-> cls, dat |-> path_of(w, dat_op)]]
        root2     == PutAt(root, kp, [self EXCEPT !.children =
                                         DSet(self.children, attr_name, new_instance)])
        \* the loops ran into a stored record: the existing child stays
        stopped   == PutAt(root, kp, [self EXCEPT !.children =
                         DSet(self.children, attr_name,
                              [existing EXCEPT
                                  !.children = repoint(@, Other),
                                  !.extensions = repoint_until_raw(@, Other)])])
    IN  IF cls = None THEN Result(root, store, "ValueError")
        ELSE IF DHas(self.extensions, attr_name)
             THEN Log(Result(root, store, "NotImplementedError"), ExtensionPatch)
        ELSE IF ~DHas(self.children, attr_name) THEN Result(root, store, "ValueError")
        ELSE IF ~extracted.ok THEN Result(root, store, "RuntimeError")
        ELSE IF extracted.base # wanted THEN Result(root, store, "TypeError")
        ELSE IF \E i \in DOMAIN existing.extensions : existing.extensions[i].v.raw
             THEN Result(stopped, store, "AttributeError")
        ELSE LogOk(update_storage(w, root2, store), "Monkey-patched")

\* what "getattr(self, attr_name)" finds on a container: an extension that
\* _extend set as an attribute of this object (the instance attribute is
\* found before __getattr__ looks among the children), a child, a method or
\* property of the class, or nothing.  A record that _refresh has put in
\* _extensions is no attribute of the object.
existing_attr(self, attr_name) ==
    IF DHas(self.extensions, attr_name) /\ ~DGet(self.extensions, attr_name).raw
    THEN "extension"
    ELSE IF DHas(self.children, attr_name) THEN "child"
    ELSE IF attr_name \in ContainerAttrs THEN "attribute"
    ELSE None

\* a variant of _extend that refuses the name of an existing extension too
extend_keeps_extension(w, root, store, kp, attr_name, cls, func, dat) ==
    LET self     == NodeAt(root, kp)
        dat_op   == td_isinstance(w, dat, "textdat")
        actual_obj == Main(w, cls, func, dat)
        extension == OProxyExtension(metadata_of(w, cls, func, dat_op))
        root2    == PutAt(root, kp, [self EXCEPT !.extensions =
                                        DSet(self.extensions, attr_name, extension)])
    IN  IF ~extend_params_ok(cls, func, dat)
        THEN Log(Result(root, store, "ValueError"), ParamsMessage)
        ELSE IF dat_op = None THEN Result(root, store, "ValueError")
        ELSE IF existing_attr(self, attr_name) # None
             THEN Log(Result(root, store, "ValueError"), AttrConflict)
        ELSE IF ~actual_obj.ok THEN Result(root, store, "RuntimeError")
        ELSE update_storage(w, root2, store)

\* a variant of _extend that calls the extractor before it checks its
\* parameters
extend_extracts_first(w, root, store, kp, attr_name, cls, func, dat) ==
    LET self     == NodeAt(root, kp)
        dat_op   == td_isinstance(w, dat, "textdat")
        actual_obj == Main(w, cls, func, dat)
        extension == OProxyExtension(metadata_of(w, cls, func, dat_op))
        root2    == PutAt(root, kp, [self EXCEPT !.extensions =
                                        DSet(self.extensions, attr_name, extension)])
    IN  IF ~actual_obj.ok THEN Result(root, store, "RuntimeError")
        ELSE IF ~extend_params_ok(cls, func, dat)
             THEN Log(Result(root, store, "ValueError"), ParamsMessage)
        ELSE IF existing_attr(self, attr_name) = "child"
             THEN Log(Result(root, store, "ValueError"), ChildConflict)
        ELSE IF existing_attr(self, attr_name) = "attribute"
             THEN Log(Result(root, store, "ValueError"), AttrConflict)
        ELSE update_storage(w, root2, store)

\* OProxyContainer._extend(attr_name, cls, func, dat) on the container at kp
extend(w, root, store, kp, attr_name, cls, func, dat) ==
    LET self     == NodeAt(root, kp)
        dat_op   == td_isinstance(w, dat, "textdat")
        actual_obj == Main(w, cls, func, dat)
        extension == OProxyExtension(metadata_of(w, cls, func, dat_op))
        root2    == PutAt(root, kp, [self EXCEPT !.extensions =
                                        DSet(self.extensions, attr_name, extension)])
    IN  IF ~extend_params_ok(cls, func, dat)
        THEN Log(Result(root, store, "ValueError"), ParamsMessage)
        ELSE IF attr_name = "" \/ ~isidentifier(attr_name) \/ iskeyword(attr_name)
             THEN Result(root, store, "ValueError")
        ELSE IF dat_op = None THEN Result(root, store, "ValueError")
        ELSE IF existing_attr(self, attr_name) = "child"
             THEN Log(Result(root, store, "ValueError"), ChildConflict)
        ELSE IF existing_attr(self, attr_name) = "attribute"
             THEN Log(Result(root, store, "ValueError"), AttrConflict)
        ELSE IF ~actual_obj.ok THEN Result(root, store, "RuntimeError")
        ELSE update_storage(w, root2, store)

\* OProxyLeaf._extend(attr_name, cls, func, dat) on the leaf at lp
leaf_extend(w, root, store, lp, attr_name, cls, func, dat) ==
    LET self     == NodeAt(root, lp)
        dat_op   == td_isinstance(w, dat, "textdat")
        actual_obj == Main(w, cls, func, dat)
        extension == OProxyExtension(metadata_of(w, cls, func, dat_op))
        root2    == PutAt(root, lp, [self EXCEPT !.extensions =
                                        DSet(self.extensions, attr_name, extension)])
    IN  IF ~extend_params_ok(cls, func, dat)
        THEN Log(Result(root, store, "ValueError"), ParamsMessage)
        ELSE IF dat_op = None THEN Result(root, store, "ValueError")
        ELSE IF attr_name \in OpAttrs
             THEN Log(Result(root, store, "ValueError"), AttrConflict)
        ELSE IF ~actual_obj.ok THEN Result(root, store, "RuntimeError")
        ELSE update_storage(w, root2, store)

----------------------------------------------------------------------------
(* Extensions of extensions: OProxyExtension._extend / _remove *)

\* An extension below a node is addressed by the node's key path np and the
\* sequence ep of extension names that leads to it from the node.
RECURSIVE ExtHas(_, _)
ExtHas(exts, ep) ==
    /\ ep # <<>>
    /\ DHas(exts, Head(ep))
    /\ Len(ep) > 1 => ExtHas(DGet(exts, Head(ep)).extensions, Tail(ep))

RECURSIVE ExtAt(_, _)
ExtAt(exts, ep) ==
    IF Len(ep) = 1 THEN DGet(exts, Head(ep))
    ELSE ExtAt(DGet(exts, Head(ep)).extensions, Tail(ep))

\* "owner._extensions[name] = e" for the owner that ep's front leads to
RECURSIVE ExtPut(_, _, _)
ExtPut(exts, ep, e) ==
    IF Len(ep) = 1 THEN DSet(exts, Head(ep), e)
    ELSE DSet(exts, Head(ep),
              [DGet(exts, Head(ep)) EXCEPT
                  !.extensions = ExtPut(@, Tail(ep), e)])

\* "del owner._extensions[name]"
RECURSIVE ExtDel(_, _)
ExtDel(exts, ep) ==
    IF Len(ep) = 1 THEN DDel(exts, Head(ep))
    ELSE DSet(exts, Head(ep),
              [DGet(exts, Head(ep)) EXCEPT
                  !.extensions = ExtDel(@, Tail(ep))])

\* the addresses of all extensions in an extension map, nested ones included
RECURSIVE ExtPaths(_)
ExtPaths(exts) ==
    UNION { {<<exts[i].k>>} \cup
            {<<exts[i].k>> \o p : p \in ExtPaths(exts[i].v.extensions)} :
            i \in DOMAIN exts }

\* name.startswith('_') on the names of the model
startswith_underscore(name) ==
    name \in {"_sub", "_remove", "_extend", "_add", "_tree", "_refresh", "_storage"}

\* attributes every OProxyExtension has that are no extensions: hasattr()
\* finds them (a function object as _actual delegates no public attribute)
ExtensionAttrs ==
    {"path", "parent", "extension_info", "_remove", "_extend", "_add", "_tree",
     "_refresh", "_storage"}

\* OProxyExtension._get_extension_depth of the extension at ep: the number
\* of extensions among its ancestors
get_extension_depth(ep) == Len(ep) - 1

\* OProxyExtension._would_create_circular_dependency on the extension at ep:
\* the walk starts at self._parent, and compares dat.path, or str(dat) when
\* dat is a string, with the dat_path recorded by each ancestor extension
would_create_circular_dependency(w, exts, ep, cls, func, dat) ==
    LET source_path == IF dat.str THEN dat.loc ELSE path_of(w, dat.ref)
    IN  \E n \in 1..(Len(ep) - 1) :
            LET parent_metadata == ExtAt(exts, SubSeq(ep, 1, n)).metadata
            IN  /\ parent_metadata.dat_path = source_path
                /\ parent_metadata.cls = cls
                /\ parent_metadata.func = func

\* the default of max_depth in OProxyExtension._extend
DefaultMaxDepth == 10

\* OProxyExtension._extend(attr_name, cls, func, dat, max_depth) on the
\* extension at ep of the node at np.  "setattr(self, attr_name, extension)"
\* goes through OProxyBaseWrapper.__setattr__, which raises
\* NotImplementedError for a name that does not start with '_'.
ext_extend(w, root, store, np, ep, attr_name, cls, func, dat, max_depth) ==
    LET node     == NodeAt(root, np)
        self     == ExtAt(node.extensions, ep)
        dat_op   == td_isinstance(w, dat, "textdat")
        actual_obj == Main(w, cls, func, dat)
        extension == OProxyExtension(metadata_of(w, cls, func, dat_op))
        root2    == PutAt(root, np, [node EXCEPT !.extensions =
                        ExtPut(node.extensions, Append(ep, attr_name), extension)])
    IN  IF ~extend_params_ok(cls, func, dat)
        THEN Log(Result(root, store, "ValueError"), ParamsMessage)
        ELSE IF attr_name = "" \/ ~isidentifier(attr_name) \/ iskeyword(attr_name)
             THEN Result(root, store, "ValueError")
        ELSE IF get_extension_depth(ep) >= max_depth
             THEN Log(Result(root, store, "ValueError"), "Maximum extension depth exceeded")
        ELSE IF would_create_circular_dependency(w, node.extensions, ep, cls, func, dat)
             THEN Log(Result(root, store, "ValueError"), "would create a circular dependency")
        ELSE IF dat_op = None THEN Result(root, store, "ValueError")
        ELSE IF attr_name \in ExtensionAttrs
             THEN Log(Result(root, store, "ValueError"), AttrConflict)
        ELSE IF ~actual_obj.ok THEN Result(root, store, "RuntimeError")
        ELSE IF ~startswith_underscore(attr_name)
             THEN Result(root, store, "NotImplementedError")
        ELSE IF ~reaches_root(root2, np) THEN Result(root2, store, "")
        ELSE update_storage(w, root2, store)

\* OProxyExtension._remove() on the extension at ep of the container at np:
\* first every nested extension (each one detaches itself and synchronizes
\* the storage), then, "if self._parent:", "del
\* self._parent._extensions[name]" and root._update_storage(), whose
\* exception is caught and logged
RECURSIVE ext_remove(_, _, _, _, _)
RECURSIVE ext_remove_each(_, _, _, _, _, _)
ext_remove_each(w, root, store, np, ep, extensions_to_remove) ==
    IF extensions_to_remove = <<>> THEN Result(root, store, "")
    ELSE LET child == Append(ep, Head(extensions_to_remove))
             r == IF ExtAt(NodeAt(root, np).extensions, child).raw
                  THEN Result(root, store, "")   \* a dict has no _remove: caught
                  ELSE ext_remove(w, root, store, np, child)
         IN  ext_remove_each(w, r.mem, r.store, np, ep, Tail(extensions_to_remove))

ext_remove(w, root, store, np, ep) ==
    LET self   == ExtAt(NodeAt(root, np).extensions, ep)
        below  == ext_remove_each(w, root, store, np, ep,
                      [i \in DOMAIN self.extensions |-> self.extensions[i].k])
        node   == NodeAt(below.mem, np)
        root2  == PutAt(below.mem, np,
                        [node EXCEPT !.extensions = ExtDel(node.extensions, ep)])
    IN  Log(IF Len(ep) = 1 /\ ~truthy(node) THEN Result(below.mem, below.store, "")
            ELSE IF ~reaches_root(root2, np) THEN Result(root2, below.store, "")
            ELSE Result(root2, update_storage(w, root2, below.store).store, ""),
            "Extension and all nested extensions removed")

\* the order in which OProxyExtension._remove() on the extension at ep
\* detaches extensions: the nested ones, in the order of the map, each after
\* the ones nested below it, and the extension itself last
RECURSIVE ext_remove_order(_, _)
RECURSIVE ext_remove_order_each(_, _, _)
ext_remove_order_each(exts, ep, extensions_to_remove) ==
    IF extensions_to_remove = <<>> THEN <<>>
    ELSE (IF ExtAt(exts, Append(ep, Head(extensions_to_remove))).raw THEN <<>>
          ELSE ext_remove_order(exts, Append(ep, Head(extensions_to_remove))))
         \o ext_remove_order_each(exts, ep, Tail(extensions_to_remove))

ext_remove_order(exts, ep) ==
    Append(ext_remove_order_each(exts, ep,
               [i \in DOMAIN ExtAt(exts, ep).extensions |->
                   ExtAt(exts, ep).extensions[i].k]),
           ep)

----------------------------------------------------------------------------
(* _refresh of an extension *)

\* OProxyExtension._get_stored_extension_data for the extension at ep of the
\* node at np: the persisted map is entered with the paths of the containers
\* above the extension followed by the extension names, and its own keys are
\* 'children' and 'extensions'; so the nested records are found only for a
\* single name with no container path before it, and then in the
\* extensions of the root.  The empty map stands for None as well: the
\* caller returns on either.
get_stored_extension_data(root, store, np, ep) ==
    IF Len(ep) = 1 /\ (np = <<>> \/ ~truthy(NodeAt(root, np)))
          /\ DHas(store.extensions, Head(ep))
    THEN DGet(store.extensions, Head(ep)).extensions
    ELSE <<>>

\* the loop of OProxyExtension._refresh_extensions over the stored records:
\* each record whose DAT resolves gives a new extension, which has no nested
\* extensions (its own lookup finds none), registered under the name of the
\* record; an exception ends the pass of that record only
RECURSIVE ext_refresh_entries(_, _, _, _, _, _)
ext_refresh_entries(w, root, store, np, ep, extensions_data) ==
    IF extensions_data = <<>> THEN Result(root, store, "")
    ELSE LET ext_name == Head(extensions_data).k
             metadata == Head(extensions_data).v.metadata
             dat      == resolve_stored_op(w, [path |-> metadata.dat_path,
                                               op |-> metadata.dat_op])
             changed  == metadata.dat_path # path_of(w, dat)
             actual_obj == Main(w, metadata.cls, metadata.func, ObjItem(dat))
             extension == OProxyExtension(
                              IF changed
                              THEN [metadata EXCEPT !.dat_path = path_of(w, dat),
                                                    !.dat_op = dat]
                              ELSE metadata)
             node     == NodeAt(root, np)
             root2    == PutAt(root, np, [node EXCEPT !.extensions =
                             ExtPut(node.extensions, Append(ep, ext_name), extension)])
             synced   == update_storage(w, root2, store)
             pass     == IF dat = None THEN Log(Result(root, store, ""), "Could not resolve DAT")
                         ELSE IF ~actual_obj.ok \/ ~startswith_underscore(ext_name)
                              THEN Log(Result(root, store, ""), "Failed to refresh extension")
                         ELSE IF ~changed \/ ~reaches_root(root2, np)
                              THEN Result(root2, store, "")
                         ELSE IF synced.err # ""
                              THEN Log(Result(root2, synced.store, ""), "Failed to refresh extension")
                         ELSE Result(root2, synced.store, "")
             rest     == ext_refresh_entries(w, pass.mem, pass.store, np, ep,
                                             Tail(extensions_data))
         IN  IF rest.log = "" THEN Log(rest, pass.log) ELSE rest

\* OProxyExtension._refresh_extensions
ext_refresh_extensions(w, root, store, np, ep) ==
    LET extensions_data == get_stored_extension_data(root, store, np, ep)
    IN  IF extensions_data = <<>> THEN Result(root, store, "")
        ELSE ext_refresh_entries(w, root, store, np, ep, extensions_data)

\* OProxyExtension._refresh() on the extension at ep of the node at np:
\* _refresh_source_dat, then _refresh_extensions; an exception of either is
\* caught and logged
ext_refresh(w, root, store, np, ep) ==
    LET node     == NodeAt(root, np)
        self     == ExtAt(node.extensions, ep)
        metadata == self.metadata
        dat      == resolve_stored_op(w, [path |-> metadata.dat_path,
                                          op |-> metadata.dat_op])
        changed  == metadata.dat_path # path_of(w, dat)
        actual_obj == Main(w, metadata.cls, metadata.func, ObjItem(dat))
        root2    == IF changed
                    THEN PutAt(root, np, [node EXCEPT !.extensions =
                             ExtPut(node.extensions, ep,
                                    [self EXCEPT !.metadata.dat_path = path_of(w, dat),
                                                 !.metadata.dat_op = dat])])
                    ELSE root
        \* "if changed and self._parent": the parent is the node when ep is
        \* a single name, an extension otherwise
        synced   == IF changed /\ (Len(ep) > 1 \/ truthy(node))
                    THEN update_storage(w, root2, store)
                    ELSE Result(root2, store, "")
    IN  IF dat = None
        THEN LET r == ext_refresh_extensions(w, root, store, np, ep)
             IN  IF r.log = "" THEN Log(r, "Source DAT not found or invalid") ELSE r
        ELSE IF ~actual_obj.ok
             THEN Log(Result(root2, store, ""), "Extension refresh failed")
        ELSE IF synced.err # ""
             THEN Log(Result(root2, synced.store, ""), "Extension refresh failed")
        ELSE ext_refresh_extensions(w, root2, synced.store, np, ep)

----------------------------------------------------------------------------
(* _refresh of a leaf *)

\* "keys[index] = self._op.name; children.clear();
\* children.update(zip(keys, values))": the child map with current_key
\* replaced by name at its place; a key that occurs twice keeps its first
\* place and its last value
RECURSIVE rekey(_, _, _, _)
rekey(children, current_key, name, done) ==
    IF children = <<>> THEN done
    ELSE rekey(Tail(children), current_key, name,
               DSet(done,
                    IF Head(children).k = current_key THEN name ELSE Head(children).k,
                    Head(children).v))

\* OProxyLeaf._refresh_extensions: the stored entry of the leaf is the one
\* whose 'path' is the current path of the operator; each of its extension
\* records is read with metadata['dat_path'], which the record {'metadata',
\* 'extensions'} does not have, so every pass ends in the except branch and
\* the leaf is left as it is.  The message that is logged, "" if none.
leaf_refresh_extensions(w, store, parent, self) ==
    LET stored_data == get_stored_container_data(store, parent)
        ops_data    == stored_data.data.ops
        found       == {i \in DOMAIN ops_data : ops_data[i].v.path = path_of(w, self.op)}
        first       == CHOOSE i \in found : \A j \in found : i <= j
    IN  IF ~stored_data.found \/ found = {} THEN ""
        ELSE IF ops_data[first].v.extensions = <<>> THEN ""
        ELSE "Failed to reload extension"

\* OProxyLeaf._refresh() on the leaf at lp: an exception is caught and logged
leaf_refresh(w, root, store, lp) ==
    LET parent      == NodeAt(root, Front(lp))
        self        == NodeAt(root, lp)
        current_key == Last(lp)
        name        == w[self.op].name
        renamed     == [self EXCEPT !.path = Append(parent.path, name)]
        root2       == PutAt(root, Front(lp),
                           [parent EXCEPT !.children =
                               rekey(DSet(parent.children, current_key, renamed),
                                     current_key, name, <<>>)])
        synced      == update_storage(w, root2, store)
    IN  IF ~w[self.op].valid
        THEN Log(Result(root, store, ""), "Leaf refresh failed")
        ELSE IF current_key = name
             THEN Log(Result(root, store, ""),
                      leaf_refresh_extensions(w, store, parent, self))
        ELSE IF synced.err # ""
             THEN Log(Result(root2, synced.store, ""), "Leaf refresh failed")
        ELSE Log(Result(root2, synced.store, ""),
                 leaf_refresh_extensions(w, synced.store,
                                         NodeAt(root2, Front(lp)), renamed))

----------------------------------------------------------------------------
(* _clear *)

\* OProxyBaseWrapper._find_root from the node at p: "while current._parent is
\* not None: current = current._parent".  The parent of a node is the object
\* that holds it or an object that was replaced in the same place, so each
\* step leads to the holder's place.
RECURSIVE find_root(_, _)
find_root(root, p) ==
    IF NodeAt(root, p).parent = None THEN p
    ELSE find_root(root, Front(p))

\* the end of oproxy.root._clear: whatever the refresh logged, the call
\* returns normally after "_clear operation completed"
clear_completed(r) ==
    Log(Result(r.mem, r.store, ""), "_clear operation completed")

\* a _clear without "self._extensions.clear()"
clear_keeps_extensions(w, root, store) ==
    clear_completed(
        refresh(w,
                [ext_remove_each(w, root, store, <<>>, <<>>,
                                 [i \in DOMAIN root.extensions |-> root.extensions[i].k]).mem
                    EXCEPT !.children = <<>>],
                [children |-> <<>>, extensions |-> <<>>], <<>>))

\* oproxy.root._clear: each root extension is removed (an exception of a
\* removal is caught), the storage item is restored to its default, both
\* maps of the root are emptied, and the root is refreshed
clear(w, root, store) ==
    clear_completed(
        refresh(w,
                [ext_remove_each(w, root, store, <<>>, <<>>,
                                 [i \in DOMAIN root.extensions |-> root.extensions[i].k]).mem
                    EXCEPT !.children = <<>>, !.extensions = <<>>],
                [children |-> <<>>, extensions |-> <<>>], <<>>))

\* _clear called on the node at p: OProxyBaseWrapper._clear hands over to
\* the root that _find_root gives, and raises when that is the node itself
\* and the node is not an oproxy.root
wrapper_clear(w, root, store, p) ==
    IF p = <<>> \/ find_root(root, p) = <<>> THEN clear(w, root, store)
    ELSE Result(root, store, "NotImplementedError")

----------------------------------------------------------------------------
(* The calls *)

Loc(comp, name) == [comp |-> comp, name |-> name]

\* the op arguments the model passes to _add
Batches ==
    { <<ObjItem("R1"), ObjItem("R2")>>,
      <<ObjItem("R2"), StrItem(Loc("/project1", "missing"))>> }

OpNames == {"op1", "nest", "changed1"}

Call(op, r) ==
    /\ frames = <<>>
    /\ steps < MaxSteps
    /\ steps' = steps + 1
    /\ mem' = r.mem
    /\ OProxies' = r.store
    /\ last' = [op |-> op, err |-> r.err, log |-> r.log]
    /\ UNCHANGED <<td, renames, restarts, updating_storage, frames>>

Add(kp, name, op_list) ==
    /\ Len(kp) < MaxDepth
    /\ Call("add", add(td, mem, OProxies, kp, name, op_list))

Remove(kp, name) ==
    Call("remove", remove(td, mem, OProxies, kp, name))

RemoveSelf(kp) ==
    Call("remove_self", remove_self(td, mem, OProxies, kp))

\* the extensions the model attaches
ExtInputs ==
    { [attr |-> "test", cls |-> None, func |-> "hello", dat |-> ObjItem("D1")] }

PatchClasses == {"ResolutionMP", "helloWorld"}

Extend(kp, e) ==
    Call("extend", extend(td, mem, OProxies, kp, e.attr, e.cls, e.func, e.dat))

LeafExtend(lp, e) ==
    Call("leaf_extend",
         leaf_extend(td, mem, OProxies, lp, e.attr, e.cls, e.func, e.dat))

MonkeyPatch(kp, name, cls) ==
    /\ DHas(NodeAt(mem, kp).children, name)
    /\ Call("monkey_patch",
            monkey_patch(td, mem, OProxies, kp, name, cls,
                         StrItem(Loc("/project1", "extensions_for_tests"))))

Refresh(kp) ==
    Call("refresh", refresh(td, mem, OProxies, kp))

LeafRemove(lp) ==
    Call("leaf_remove", leaf_remove(td, mem, OProxies, lp))

\* the lists of names the model passes to _remove
NameLists == { <<"op1", "nest">>, <<"path", "op1">> }

RemoveNames(kp, names) ==
    Call("remove_names", remove_names(td, mem, OProxies, kp, names))

\* the extensions the model attaches to an extension
NestedExtInputs ==
    { [attr |-> "_sub", cls |-> None, func |-> "hello", dat |-> ObjItem("D1")] }

\* the values of max_depth the model passes
DepthLimits == {1, DefaultMaxDepth}

\* the extensions below the containers that are OProxyExtension objects
LiveExtensions(root) ==
    UNION { {[np |-> np, ep |-> ep] :
                ep \in {p \in ExtPaths(NodeAt(root, np).extensions) :
                            ~ExtAt(NodeAt(root, np).extensions, p).raw}} :
            np \in ContainerPaths(root) }

ExtExtend(x, e, max_depth) ==
    Call("ext_extend",
         ext_extend(td, mem, OProxies, x.np, x.ep, e.attr, e.cls, e.func, e.dat, max_depth))

ExtRemove(x) ==
    Call("ext_remove", ext_remove(td, mem, OProxies, x.np, x.ep))

LeafRefresh(lp) ==
    Call("leaf_refresh", leaf_refresh(td, mem, OProxies, lp))

ExtRefresh(x) ==
    Call("ext_refresh", ext_refresh(td, mem, OProxies, x.np, x.ep))

\* _clear() on the root (p = <<>>) or on a container or leaf below it
Clear(p) ==
    Call(IF p = <<>> THEN "root_clear" ELSE "clear", wrapper_clear(td, mem, OProxies, p))

\* a new root object replaces the old one; r is what its construction leaves
Construct(r) ==
    /\ frames = <<>>
    /\ restarts < MaxRestarts
    /\ restarts' = restarts + 1
    /\ mem' = r.mem
    /\ OProxies' = r.store
    /\ last' = [op |-> "restart", err |-> "", log |-> r.log]
    /\ updating_storage' = FALSE
    /\ UNCHANGED <<td, renames, steps, frames>>

\* the project is loaded again: oproxy.root.__init__ over the same storage
Restart == Construct(restart(td, OProxies))

\* an operator is renamed outside OProxy
Rename(r, n) ==
    /\ renames < MaxRenames
    /\ td[r].valid
    /\ td[r].name # n
    /\ td_op(td, Loc(td[r].comp, n)) = None
    /\ td' = [td EXCEPT ![r].name = n]
    /\ renames' = renames + 1
    /\ UNCHANGED <<mem, OProxies, last, steps, restarts, updating_storage, frames>>

\* an operator is destroyed outside OProxy
Destroy(r) ==
    /\ Cardinality({x \in AllIds : ~td[x].valid}) < MaxDestroyed
    /\ td[r].valid
    /\ td' = [td EXCEPT ![r].valid = FALSE]
    /\ UNCHANGED <<mem, OProxies, last, steps, renames, restarts, updating_storage, frames>>

Init ==
    /\ td = [r \in AllIds |->
               IF r = "R1" THEN [name |-> "op1", comp |-> "/project1", valid |-> TRUE, type |-> "TOP"]
               ELSE IF r = "R2" THEN [name |-> "nest", comp |-> "/project1", valid |-> TRUE, type |-> "TOP"]
               ELSE [name |-> "extensions_for_tests", comp |-> "/project1", valid |-> TRUE, type |-> "textDAT"]]
    /\ renames = 0
    /\ mem = OProxyContainer(<<>>)
    /\ OProxies = [children |-> <<>>, extensions |-> <<>>]
    /\ last = [op |-> "init", err |-> "", log |-> ""]
    /\ steps = 0
    /\ restarts = 0
    /\ updating_storage = FALSE
    /\ frames = <<>>

Next ==
    \/ \E kp \in ContainerPaths(mem), name \in Names, b \in Batches : Add(kp, name, b)
    \/ \E kp \in ContainerPaths(mem), name \in Names \cup OpNames : Remove(kp, name)
    \/ \E kp \in ContainerPaths(mem) : RemoveSelf(kp)
    \/ \E lp \in LeafPaths(mem) : LeafRemove(lp)
    \/ \E kp \in ContainerPaths(mem), names \in NameLists : RemoveNames(kp, names)
    \/ \E x \in LiveExtensions(mem), e \in NestedExtInputs, m \in DepthLimits :
          ExtExtend(x, e, m)
    \/ \E x \in LiveExtensions(mem) : ExtRemove(x)
    \/ \E r \in OpIds, n \in OpNames : Rename(r, n)
    \/ \E kp \in ContainerPaths(mem) : Refresh(kp)
    \/ \E kp \in ContainerPaths(mem), e \in ExtInputs : Extend(kp, e)
    \/ \E lp \in LeafPaths(mem), e \in ExtInputs : LeafExtend(lp, e)
    \/ \E kp \in ContainerPaths(mem), name \in Names \cup OpNames, cls \in PatchClasses :
          MonkeyPatch(kp, name, cls)
    \/ Restart

Spec == Init /\ [][Next]_vars

\* the calls that add and remove children, with external renames
NextAdd ==
    \/ \E kp \in ContainerPaths(mem), name \in Names, b \in Batches : Add(kp, name, b)
    \/ \E kp \in ContainerPaths(mem), name \in Names \cup OpNames : Remove(kp, name)
    \/ \E kp \in ContainerPaths(mem) : RemoveSelf(kp)
    \/ \E r \in OpIds, n \in OpNames : Rename(r, n)

SpecAdd == Init /\ [][NextAdd]_vars

\* a project in which an operator is named like an attribute of the
\* containers, and lives in another COMP than op1, so that a rename can give
\* two operators the same name
InitNames ==
    /\ td = [r \in AllIds |->
               IF r = "R1" THEN [name |-> "op1", comp |-> "/project1", valid |-> TRUE, type |-> "TOP"]
               ELSE IF r = "R2" THEN [name |-> "path", comp |-> "/project2", valid |-> TRUE, type |-> "TOP"]
               ELSE [name |-> "extensions_for_tests", comp |-> "/project1", valid |-> TRUE, type |-> "textDAT"]]
    /\ renames = 0
    /\ mem = OProxyContainer(<<>>)
    /\ OProxies = [children |-> <<>>, extensions |-> <<>>]
    /\ last = [op |-> "init", err |-> "", log |-> ""]
    /\ steps = 0
    /\ restarts = 0
    /\ updating_storage = FALSE
    /\ frames = <<>>

\* add, also with an empty list of operators, remove, rename and refresh
NextNames ==
    \/ \E kp \in ContainerPaths(mem), name \in Names, b \in Batches \cup {<<>>} :
          Add(kp, name, b)
    \/ \E kp \in ContainerPaths(mem), name \in Names \cup OpNames : Remove(kp, name)
    \/ \E lp \in LeafPaths(mem) : LeafRemove(lp)
    \/ \E r \in OpIds, n \in OpNames : Rename(r, n)
    \/ \E kp \in ContainerPaths(mem) : Refresh(kp)

SpecNames == InitNames /\ [][NextNames]_vars

\* calls of _extend with both a class and a function, and with neither
BadExtInputs ==
    { [attr |-> "test", cls |-> "myClass", func |-> "hello", dat |-> ObjItem("D1")],
      [attr |-> "test", cls |-> None, func |-> None, dat |-> ObjItem("D1")] }

\* calls of _extend with a name that is in use: "items" is the key of a
\* child once it was added, "path" is a property of every owner
ClashInputs ==
    { [attr |-> "items", cls |-> None, func |-> "hello", dat |-> ObjItem("D1")],
      [attr |-> "path", cls |-> "myClass", func |-> None, dat |-> ObjItem("D1")] }

\* a second extension for a name, from another symbol of the source
OtherExtInputs ==
    { [attr |-> "test", cls |-> "myClass", func |-> None, dat |-> ObjItem("D1")] }

ExtendInputs ==
    ExtInputs \cup NestedExtInputs \cup BadExtInputs \cup ClashInputs \cup OtherExtInputs

\* the calls that attach and detach extensions, on a tree that add builds
NextExt ==
    \/ \E kp \in ContainerPaths(mem), b \in Batches : Add(kp, "items", b)
    \/ \E kp \in ContainerPaths(mem), e \in ExtendInputs : Extend(kp, e)
    \/ \E lp \in LeafPaths(mem), e \in ExtendInputs : LeafExtend(lp, e)
    \/ \E x \in LiveExtensions(mem), e \in ExtendInputs, m \in DepthLimits :
          ExtExtend(x, e, m)
    \/ \E x \in LiveExtensions(mem) : ExtRemove(x)
    \/ \E kp \in ContainerPaths(mem) : Refresh(kp)

SpecExt == Init /\ [][NextExt]_vars

\* the calls that replace the class of a child, on a tree with extensions
NextPatch ==
    \/ \E kp \in ContainerPaths(mem), b \in Batches : Add(kp, "items", b)
    \/ \E kp \in ContainerPaths(mem), name \in Names \cup OpNames,
          cls \in PatchClasses \cup {"myClass"} :
          MonkeyPatch(kp, name, cls)
    \/ \E kp \in ContainerPaths(mem), e \in ExtInputs \cup ClashInputs : Extend(kp, e)
    \/ \E lp \in LeafPaths(mem), e \in ExtInputs : LeafExtend(lp, e)
    \/ \E kp \in ContainerPaths(mem) : Refresh(kp)

SpecPatch == Init /\ [][NextPatch]_vars

----------------------------------------------------------------------------
(* What the tree and the persisted map hold, as sets of keyed entries *)

Entry(kind, at, key, patch) == [kind |-> kind, at |-> at, key |-> key, patch |-> patch]

\* the extension keys of an extension map and of every map nested below it
RECURSIVE ExtOutline(_, _)
ExtOutline(exts, at) ==
    UNION { {Entry("extension", at, exts[i].k, NoPatch)}
            \cup ExtOutline(exts[i].v.extensions, Append(at, exts[i].k)) :
            i \in DOMAIN exts }

\* the containers, resource keys, extension keys and monkey-patch records of
\* the in-memory container c, whose key path is `at`
RECURSIVE MemOutline(_, _)
MemOutline(c, at) ==
    ExtOutline(c.extensions, at)
    \cup UNION { {Entry(c.children[i].v.kind, at, c.children[i].k,
                        c.children[i].v.monkey_patch)}
                 \cup (IF c.children[i].v.kind = "container"
                       THEN MemOutline(c.children[i].v, Append(at, c.children[i].k))
                       ELSE ExtOutline(c.children[i].v.extensions,
                                       Append(at, c.children[i].k))) :
                 i \in DOMAIN c.children }

OpsOutline(ops, at) ==
    UNION { {Entry("leaf", at, ops[i].k, ops[i].v.monkey_patch)}
            \cup ExtOutline(ops[i].v.extensions, Append(at, ops[i].k)) :
            i \in DOMAIN ops }

\* the same entries read from a persisted 'children' map
RECURSIVE ChildrenOutline(_, _)
ChildrenOutline(children, at) ==
    UNION { {Entry("container", at, children[i].k, children[i].v.monkey_patch)}
            \cup ExtOutline(children[i].v.extensions, Append(at, children[i].k))
            \cup OpsOutline(children[i].v.ops, Append(at, children[i].k))
            \cup ChildrenOutline(children[i].v.children, Append(at, children[i].k)) :
            i \in DOMAIN children }

StoreOutline(store) ==
    ExtOutline(store.extensions, <<>>) \cup ChildrenOutline(store.children, <<>>)

Mutations == {"add", "remove", "remove_self", "extend", "leaf_extend", "monkey_patch"}

----------------------------------------------------------------------------
(* C1 *)

\* C1: after every add, remove, extend or monkey-patch call that returns
\* without error, the persisted map holds the same containers, resource keys,
\* extension keys and monkey-patch records at every depth as the in-memory
\* tree.
C1_PersistedMirrorsTree ==
    (last.op \in Mutations /\ last.err = "") =>
        StoreOutline(OProxies) = MemOutline(mem, <<>>)

----------------------------------------------------------------------------
(* C2 *)

\* the containers and resource keys of the in-memory tree, at every depth
Structure(root) ==
    {[kind |-> e.kind, at |-> e.at, key |-> e.key] :
        e \in {x \in MemOutline(root, <<>>) : x.kind # "extension"}}

\* every resource bound in the tree is valid and still has the name it is
\* keyed by: nothing was renamed since it was bound or last reconciled
AllResolve(w, root) ==
    \A lp \in LeafPaths(root) :
        w[NodeAt(root, lp).op].valid /\ w[NodeAt(root, lp).op].name = Last(lp)

\* C2: round-trip stability: for any reachable tree whose resources all still
\* resolve, nested containers included, a root reconcile with no external
\* change leaves the persisted map and the in-memory container/resource
\* structure as they were before it.
C2_ReconcileRoundTrip ==
    AllResolve(td, mem) =>
        /\ refresh(td, mem, OProxies, <<>>).store = OProxies
        /\ Structure(refresh(td, mem, OProxies, <<>>).mem) = Structure(mem)

----------------------------------------------------------------------------
(* C3 *)

\* OProxyContainer.__call__(name): TRUE iff it returns a binding, FALSE iff
\* it raises KeyError
call(container, name) ==
    DHas(container.children, name) /\ DGet(container.children, name).kind = "leaf"

\* the bindings whose resource was renamed externally since they were keyed
Renamed(w, root) ==
    {lp \in LeafPaths(root) :
        w[NodeAt(root, lp).op].valid /\ w[NodeAt(root, lp).op].name # Last(lp)}

\* the binding at lp is keyed by its resource's current name in the tree
\* `m` and in the persisted map `store`, and its old key is gone from both
Rekeyed(w, m, store, lp, new) ==
    /\ HasAt(m, Front(lp))
    /\ call(NodeAt(m, Front(lp)), new)
    /\ ~call(NodeAt(m, Front(lp)), Last(lp))
    /\ ~DHas(NodeAt(m, Front(lp)).children, Last(lp))
    /\ stored_at(store.children, Front(lp)).found
    /\ DHas(stored_at(store.children, Front(lp)).data.ops, new)
    /\ ~DHas(stored_at(store.children, Front(lp)).data.ops, Last(lp))

\* C3: after a bound resource is renamed externally and the root is
\* reconciled, the binding's key in its parent's child map and in the
\* persisted map is the new name, the old name is absent from both, lookup by
\* the old name raises not-found and lookup by the new name succeeds.
C3_RenameRekeys ==
    \A lp \in Renamed(td, mem) :
        Rekeyed(td, refresh(td, mem, OProxies, <<>>).mem,
                refresh(td, mem, OProxies, <<>>).store, lp, td[NodeAt(mem, lp).op].name)

----------------------------------------------------------------------------
(* C4 *)

\* key paths of the containers of a persisted 'children' map
RECURSIVE StoredPaths(_)
StoredPaths(children) ==
    UNION { {<<children[i].k>>}
            \cup {<<children[i].k>> \o p : p \in StoredPaths(children[i].v.children)} :
            i \in DOMAIN children }

\* the source of a persisted extension record still resolves, by its
\* stored path or by its stored operator
SourceResolves(w, record) ==
    \/ td_op(w, record.metadata.dat_path) # None
    \/ w[record.metadata.dat_op].valid

\* `extensions` holds an OProxyExtension under `name` with the metadata of
\* the persisted record
Registered(extensions, name, record) ==
    /\ DHas(extensions, name)
    /\ ~DGet(extensions, name).raw
    /\ DGet(extensions, name).metadata = record.metadata

\* every resolvable record of the persisted extension map `stored` is
\* registered in `extensions` and still a key of `kept`
AllRegistered(w, stored, extensions, kept) ==
    \A i \in DOMAIN stored :
        SourceResolves(w, stored[i].v) =>
            Registered(extensions, stored[i].k, stored[i].v) /\ DHas(kept, stored[i].k)

\* C4: after a restart, every persisted extension record whose source still
\* resolves, owned by the root, a container or a resource binding, is again
\* registered on its owner as an extension with the same metadata, and the
\* persisted map still holds it after the reconcile's final synchronization.
C4_RestartReloadsExtensions ==
    LET r == restart(td, OProxies)
    IN  /\ AllRegistered(td, OProxies.extensions, r.mem.extensions, r.store.extensions)
        /\ \A kp \in StoredPaths(OProxies.children) :
              LET was == stored_at(OProxies.children, kp).data
                  now == stored_at(r.store.children, kp)
              IN  /\ was.extensions # <<>> =>
                        /\ HasAt(r.mem, kp) /\ now.found
                        /\ AllRegistered(td, was.extensions, NodeAt(r.mem, kp).extensions,
                                         now.data.extensions)
                  /\ \A j \in DOMAIN was.ops :
                        LET op  == resolve_stored_op(td, was.ops[j].v)
                            key == td[op].name
                        IN  (op # None /\ was.ops[j].v.extensions # <<>>) =>
                                /\ HasAt(r.mem, Append(kp, key))
                                /\ now.found /\ DHas(now.data.ops, key)
                                /\ AllRegistered(td, was.ops[j].v.extensions,
                                                 NodeAt(r.mem, Append(kp, key)).extensions,
                                                 DGet(now.data.ops, key).extensions)

----------------------------------------------------------------------------
(* C5 *)

\* key paths of the child containers in the tree
ChildContainers(root) == {kp \in ContainerPaths(root) : kp # <<>>}

\* after the call that left `r`, the container that was at kp is neither in
\* the tree nor, at any depth, in the persisted map
Gone(r, kp) ==
    /\ ~HasAt(r.mem, kp)
    /\ ~stored_at(r.store.children, kp).found

\* C5: removing a container, by remove() on itself or by remove(name) on its
\* parent, removes it and everything below it from the in-memory tree, and
\* afterwards the persisted map holds no entry for it or for anything that
\* was below it.
C5_RemoveContainerCascades ==
    \A kp \in ChildContainers(mem) :
        /\ Gone(remove(td, mem, OProxies, Front(kp), Last(kp)), kp)
        /\ Gone(remove_self(td, mem, OProxies, kp), kp)

----------------------------------------------------------------------------
(* C6 *)

\* a valid, non-reserved name: the checks of _validate_child_name that do
\* not depend on the container
ValidName(name) ==
    name # "" /\ isidentifier(name) /\ ~iskeyword(name) /\ name \notin reserved_names

\* the child map of the container at kp after add(name, b) and then
\* remove(name) were called on it
AddThenRemove(kp, name, b) ==
    LET r1 == add(td, mem, OProxies, kp, name, b)
        r2 == remove(td, r1.mem, r1.store, kp, name)
    IN  NodeAt(r2.mem, kp).children

\* C6 as stated: for every valid, non-reserved name N and every resource r,
\* add(N, r) then remove(N) on a container leaves its child map as it was
\* before the add.
C6_AddRemoveAnyName ==
    \A kp \in ContainerPaths(mem), name \in Names, b \in Batches :
        ValidName(name) => AddThenRemove(kp, name, b) = NodeAt(mem, kp).children

\* C6 amended: for every valid, non-reserved name N that is not already a
\* key of the container's child map and every resource r, add(N, r) then
\* remove(N) on that container leaves its child map as it was before the add.
C6_AddRemoveUnusedName ==
    \A kp \in ContainerPaths(mem), name \in Names, b \in Batches :
        (ValidName(name) /\ ~DHas(NodeAt(mem, kp).children, name)) =>
            AddThenRemove(kp, name, b) = NodeAt(mem, kp).children

\* the first call created a container under an unused name and the second
\* removed it again: the root's child map is empty as before
C6_Witness ==
    /\ steps = 2
    /\ last = [op |-> "remove", err |-> "", log |-> "Removing child"]
    /\ mem.children = <<>>

----------------------------------------------------------------------------
(* C7 *)

\* the names of the resources of a batch that resolves
ResourceNames(w, b) == {w[td_isinstance(w, b[i], "op")].name : i \in DOMAIN b}

\* C7: re-adding is idempotent: two add calls on the same container name
\* with the same resources leave the container with exactly one binding per
\* distinct resource name, and the second call changes neither the child map
\* nor the persisted map.
C7_ReAddIdempotent ==
    \A kp \in ContainerPaths(mem), name \in Names, b \in Batches :
        LET r1 == add(td, mem, OProxies, kp, name, b)
            r2 == add(td, r1.mem, r1.store, kp, name, b)
        IN  r2.err = "" =>
                /\ \A n \in ResourceNames(td, b) : call(NodeAt(r2.mem, Append(kp, name)), n)
                /\ r2.mem = r1.mem
                /\ r2.store = r1.store

----------------------------------------------------------------------------
(* C8 *)

\* the resource keys persisted for the container at key path kp
StoredOps(store, kp) ==
    IF stored_at(store.children, kp).found
    THEN DKeys(stored_at(store.children, kp).data.ops)
    ELSE {}

----------------------------------------------------------------------------
(* C9 *)

\* some resource of the batch cannot be resolved or is invalid
Unresolved(w, b) == \E i \in DOMAIN b : td_isinstance(w, b[i], "op") = None

\* C9: if any single resource in the input of an add call cannot be resolved
\* or is invalid, the call fails with an error and neither the in-memory tree
\* nor the persisted map changes, both when it would create a container and
\* when it would insert into an existing one.
C9_AddFailsWhole ==
    \A kp \in ContainerPaths(mem), name \in Names, b \in Batches :
        Unresolved(td, b) =>
            /\ add(td, mem, OProxies, kp, name, b).err # ""
            /\ add(td, mem, OProxies, kp, name, b).mem = mem
            /\ add(td, mem, OProxies, kp, name, b).store = OProxies

\* an add into an existing container was refused for an unresolved resource
C9_Witness ==
    /\ last = [op |-> "add", err |-> "ValueError",
               log |-> "_add_insert: Failed to validate OP"]
    /\ mem.children # <<>>

----------------------------------------------------------------------------
(* C10 *)

\* C10: add(name, r) on a container where name is already the key of a
\* resource binding fails with the naming-conflict error and leaves the tree
\* and the persisted map unchanged.
C10_AddOverBindingConflicts ==
    \A kp \in ContainerPaths(mem), name \in Names \cup OpNames, b \in Batches :
        call(NodeAt(mem, kp), name) =>
            /\ add(td, mem, OProxies, kp, name, b).err = "ValueError"
            /\ add(td, mem, OProxies, kp, name, b).log =
                   "Cannot add container - already exists as OP"
            /\ add(td, mem, OProxies, kp, name, b).mem = mem
            /\ add(td, mem, OProxies, kp, name, b).store = OProxies

\* an add was refused because its name is the key of a resource binding
C10_Witness ==
    /\ last = [op |-> "add", err |-> "ValueError",
               log |-> "Cannot add container - already exists as OP"]
    /\ \E kp \in ContainerPaths(mem), name \in Names : call(NodeAt(mem, kp), name)

----------------------------------------------------------------------------
(* C11 *)

\* C11: add with an unused name and an empty collection of resources is
\* rejected with an error, and no container is created in memory or in the
\* persisted map.
C11_EmptyAddRejected ==
    \A kp \in ContainerPaths(mem), name \in Names :
        ~DHas(NodeAt(mem, kp).children, name) =>
            /\ add(td, mem, OProxies, kp, name, <<>>).err # ""
            /\ add(td, mem, OProxies, kp, name, <<>>).mem = mem
            /\ add(td, mem, OProxies, kp, name, <<>>).store = OProxies

----------------------------------------------------------------------------
(* C12 *)

\* the first resource of the batch whose operator has the name n
FirstNamed(w, b, n) ==
    td_isinstance(w, b[CHOOSE i \in DOMAIN b :
                         /\ w[td_isinstance(w, b[i], "op")].name = n
                         /\ \A j \in 1..(i - 1) : w[td_isinstance(w, b[j], "op")].name # n],
                  "op")

\* the container `name` under kp exists and has the key n
AlreadyBound(root, kp, name, n) ==
    /\ DHas(NodeAt(root, kp).children, name)
    /\ DHas(NodeAt(root, Append(kp, name)).children, n)

\* C12: when the batch of one add call contains several distinct resources
\* with the same name, the container binds that name to the first such
\* resource of the batch, both when the container is created and when the
\* resources are inserted into an existing container.
C12_FirstOfBatchWins ==
    \A kp \in ContainerPaths(mem), name \in Names, b \in Batches :
        (~Unresolved(td, b) /\ add(td, mem, OProxies, kp, name, b).err = "") =>
            \A n \in ResourceNames(td, b) :
                ~AlreadyBound(mem, kp, name, n) =>
                    /\ call(NodeAt(add(td, mem, OProxies, kp, name, b).mem,
                                   Append(kp, name)), n)
                    /\ DGet(NodeAt(add(td, mem, OProxies, kp, name, b).mem,
                                   Append(kp, name)).children, n).op = FirstNamed(td, b, n)

----------------------------------------------------------------------------
(* C17 *)

\* C17: in every reachable state every key of every container's child map,
\* of child containers and of resource bindings alike, is unique in that map
\* and lies outside the reserved-name set.
C17_ChildKeysUniqueUnreserved ==
    \A kp \in ContainerPaths(mem) :
        /\ Cardinality(DKeys(NodeAt(mem, kp).children)) = Len(NodeAt(mem, kp).children)
        /\ DKeys(NodeAt(mem, kp).children) \cap reserved_names = {}

----------------------------------------------------------------------------
(* C13: malformed extend parameters *)

\* the call changed neither the tree nor the storage item
Untouched(r) == r.mem = mem /\ r.store = OProxies

\* C13: _extend on a container, on a resource binding and on an extension,
\* with both a class and a function or with neither, raises the ValueError of
\* the parameter check (not the RuntimeError of a failed extraction) and
\* leaves every extension map and the persisted map unchanged.
C13_BadParamsRejected ==
    \A e \in BadExtInputs :
        /\ \A kp \in ContainerPaths(mem) :
              LET r == extend(td, mem, OProxies, kp, e.attr, e.cls, e.func, e.dat)
              IN  r.err = "ValueError" /\ r.log = ParamsMessage /\ Untouched(r)
        /\ \A lp \in LeafPaths(mem) :
              LET r == leaf_extend(td, mem, OProxies, lp, e.attr, e.cls, e.func, e.dat)
              IN  r.err = "ValueError" /\ r.log = ParamsMessage /\ Untouched(r)
        /\ \A x \in LiveExtensions(mem), m \in DepthLimits :
              LET r == ext_extend(td, mem, OProxies, x.np, x.ep,
                                  e.attr, e.cls, e.func, e.dat, m)
              IN  r.err = "ValueError" /\ r.log = ParamsMessage /\ Untouched(r)

\* an extension was asked to extend itself with malformed parameters, in a
\* tree that has a container, a resource binding and an extension
C13_Witness ==
    /\ last.op = "ext_extend"
    /\ last.err = "ValueError"
    /\ last.log = ParamsMessage
    /\ LeafPaths(mem) # {}
    /\ LiveExtensions(mem) # {}

----------------------------------------------------------------------------
(* C14: extend with a name that is in use *)

\* the calls of _extend whose parameters pass the parameter check
GoodParams == ExtendInputs \ BadExtInputs

\* the extension that _extend(e) attaches
NewExtension(w, e) ==
    OProxyExtension(metadata_of(w, e.cls, e.func, td_isinstance(w, e.dat, "textdat")))

\* r refuses the call and changes nothing
Refused(r) == r.err = "ValueError" /\ Untouched(r)

\* after r, the extension map exts of the owner binds e.attr to the new extension
Replaced(r, exts, e) ==
    /\ r.err # "ValueError"
    /\ DHas(exts, e.attr)
    /\ DGet(exts, e.attr) = NewExtension(td, e)

\* C14: _extend with an attr_name that is the key of a child of the owner or
\* the name of one of its extensions is refused with a ValueError and leaves
\* the tree and the persisted map unchanged.
C14_NameInUseConflicts ==
    \A e \in GoodParams :
        /\ \A kp \in ContainerPaths(mem) :
              (DHas(NodeAt(mem, kp).children, e.attr) \/ DHas(NodeAt(mem, kp).extensions, e.attr))
              => Refused(extend(td, mem, OProxies, kp, e.attr, e.cls, e.func, e.dat))
        /\ \A lp \in LeafPaths(mem) :
              DHas(NodeAt(mem, lp).extensions, e.attr)
              => Refused(leaf_extend(td, mem, OProxies, lp, e.attr, e.cls, e.func, e.dat))
        /\ \A x \in LiveExtensions(mem) :
              DHas(ExtAt(NodeAt(mem, x.np).extensions, x.ep).extensions, e.attr)
              => Refused(ext_extend(td, mem, OProxies, x.np, x.ep, e.attr, e.cls,
                                    e.func, e.dat, DefaultMaxDepth))

\* C14 (amended): _extend with an attr_name that is the key of a child of the
\* owner, and not the name of an extension attached to the owner, is refused
\* with the ValueError of the conflict and leaves the tree and the persisted
\* map unchanged; with an attr_name that is the name of an extension attached
\* to the owner the call is not refused, and the owner's extension map binds
\* the name to the new extension.
C14_ChildKeyConflicts ==
    \A e \in GoodParams :
        /\ \A kp \in ContainerPaths(mem) :
              LET self == NodeAt(mem, kp)
                  r    == extend(td, mem, OProxies, kp, e.attr, e.cls, e.func, e.dat)
                  attached == DHas(self.extensions, e.attr)
                                 /\ ~DGet(self.extensions, e.attr).raw
              IN  /\ (DHas(self.children, e.attr) /\ ~attached)
                        => Refused(r) /\ r.log = ChildConflict
                  /\ attached => Replaced(r, NodeAt(r.mem, kp).extensions, e)
        /\ \A lp \in LeafPaths(mem) :
              LET r == leaf_extend(td, mem, OProxies, lp, e.attr, e.cls, e.func, e.dat)
              IN  DHas(NodeAt(mem, lp).extensions, e.attr)
                    => Replaced(r, NodeAt(r.mem, lp).extensions, e)
        /\ \A x \in LiveExtensions(mem) :
              LET r == ext_extend(td, mem, OProxies, x.np, x.ep, e.attr, e.cls,
                                  e.func, e.dat, DefaultMaxDepth)
              IN  DHas(ExtAt(NodeAt(mem, x.np).extensions, x.ep).extensions, e.attr)
                    => Replaced(r, ExtAt(NodeAt(r.mem, x.np).extensions, x.ep).extensions, e)

\* _extend was refused for the key of a child, on a container that has an
\* extension attached
C14_Witness ==
    /\ last.op = "extend"
    /\ last.err = "ValueError"
    /\ last.log = ChildConflict
    /\ DHas(mem.children, "items")
    /\ DHas(mem.extensions, "test")
    /\ DGet(mem.extensions, "test").metadata.cls = "myClass"

----------------------------------------------------------------------------
(* C15: circular dependencies *)

\* the {source locator, symbol} pair an extension was extracted from
SourcePair(e) ==
    [dat_path |-> e.metadata.dat_path, cls |-> e.metadata.cls, func |-> e.metadata.func]

\* the extensions among the ancestors of the extension at ep, its direct
\* owner included, when that is an extension
AncestorExtensions(exts, ep) ==
    {ExtAt(exts, SubSeq(ep, 1, n)) : n \in 1..(Len(ep) - 1)}

\* C15: no extension has the same {source locator, symbol} pair as an
\* extension among its ancestors, its direct owner included.
C15_NoCircularDependency ==
    \A x \in LiveExtensions(mem) :
        LET exts == NodeAt(mem, x.np).extensions
        IN  \A a \in AncestorExtensions(exts, x.ep) :
                SourcePair(a) # SourcePair(ExtAt(exts, x.ep))

----------------------------------------------------------------------------
(* C16: the depth of nesting *)

\* C16: an _extend with maximum depth m on an extension attaches an
\* extension only if the new extension has fewer than m extensions among its
\* ancestors.
C16_DepthBelowMaximum ==
    \A x \in LiveExtensions(mem), e \in NestedExtInputs, m \in DepthLimits :
        LET r   == ext_extend(td, mem, OProxies, x.np, x.ep,
                              e.attr, e.cls, e.func, e.dat, m)
            new == Append(x.ep, e.attr)
        IN  ExtHas(NodeAt(r.mem, x.np).extensions, new) /\ r.mem # mem
              => get_extension_depth(new) < m

----------------------------------------------------------------------------
(* C18: remove() of an extension *)

\* the extension map persisted for the container at key path kp
StoredExtensions(store, kp) ==
    IF kp = <<>> THEN store.extensions
    ELSE IF stored_at(store.children, kp).found
         THEN stored_at(store.children, kp).data.extensions
         ELSE <<>>

\* the extension map that holds the extension at ep
OwnerMap(exts, ep) ==
    IF Len(ep) = 1 THEN exts ELSE ExtAt(exts, Front(ep)).extensions

IsPrefix(p, q) == Len(p) < Len(q) /\ SubSeq(q, 1, Len(p)) = p

\* in the sequence order of addresses, every extension below ep occurs, and
\* occurs before the extension that owns it
NestedFirst(exts, ep, order) ==
    /\ \A p \in ExtPaths(ExtAt(exts, ep).extensions) :
          \E i \in DOMAIN order : order[i] = ep \o p
    /\ \A i, j \in DOMAIN order : IsPrefix(order[j], order[i]) => i < j

\* C18: after _remove() on an extension, neither it nor an extension nested
\* below it is in an extension map of the tree or in the persisted map, the
\* nested extensions were detached before their owners, and the other
\* extensions of its owner are unchanged.
C18_ExtensionRemoveCascades ==
    \A x \in LiveExtensions(mem) :
        LET exts == NodeAt(mem, x.np).extensions
            r    == ext_remove(td, mem, OProxies, x.np, x.ep)
            left == NodeAt(r.mem, x.np).extensions
        IN  /\ ~ExtHas(left, x.ep)
            /\ ~ExtHas(StoredExtensions(r.store, x.np), x.ep)
            /\ NestedFirst(exts, x.ep, ext_remove_order(exts, x.ep))
            /\ IF Len(x.ep) = 1 THEN left = DDel(exts, Last(x.ep))
               ELSE /\ ExtHas(left, Front(x.ep))
                    /\ OwnerMap(left, x.ep) = DDel(OwnerMap(exts, x.ep), Last(x.ep))

----------------------------------------------------------------------------
(* C19: remove() of a resource binding *)

\* the resource bindings of a child map or of a persisted 'ops' map: each
\* key with the operator it is bound to, in the order of the map
Bindings(entries) ==
    [i \in DOMAIN entries |-> [k |-> entries[i].k, op |-> entries[i].v.op]]

\* the 'ops' map persisted for the container at key path kp
StoredOpsMap(store, kp) ==
    IF stored_at(store.children, kp).found
    THEN stored_at(store.children, kp).data.ops
    ELSE <<>>

\* C19: _remove() on a resource binding returns without raising, takes
\* exactly that binding out of the child map of its parent and out of the
\* persisted map, and leaves the keys and operators of its siblings as they
\* were, in memory and in the persisted map, also when the operator was
\* renamed since it was bound.
C19_LeafRemoveDetachesSelf ==
    \A lp \in LeafPaths(mem) :
        LET r      == leaf_remove(td, mem, OProxies, lp)
            parent == NodeAt(mem, Front(lp))
        IN  /\ r.err = ""
            /\ HasAt(r.mem, Front(lp))
            /\ NodeAt(r.mem, Front(lp)).children = DDel(parent.children, Last(lp))
            /\ Bindings(StoredOpsMap(r.store, Front(lp)))
                  = Bindings(LeafEntries(NodeAt(r.mem, Front(lp))))
            /\ r.mem = PutAt(mem, Front(lp),
                             [parent EXCEPT !.children = DDel(@, Last(lp))])

----------------------------------------------------------------------------
(* C20: remove() with a collection of names *)

\* _remove(name) called for each name of names in turn, by a caller that
\* goes on to the next name whatever the call before did
RECURSIVE EachSingly(_, _, _, _, _)
EachSingly(w, root, store, kp, names) ==
    IF names = <<>> THEN Result(root, store, "")
    ELSE LET r == remove(w, root, store, kp, Head(names))
         IN  IF Len(names) = 1 THEN r
             ELSE EachSingly(w, r.mem, r.store, kp, Tail(names))

NamesOf(names) == {names[i] : i \in DOMAIN names}

\* C20: _remove(names) leaves the tree and the persisted map as the removal
\* of each name singly, in the order given, leaves them: every child that is
\* named is gone, the children that are not named are unchanged, and a name
\* that is no child neither raises nor stops the removal of the names after it.
C20_RemoveNamesIsEachInOrder ==
    \A kp \in ContainerPaths(mem), names \in NameLists :
        LET rn     == remove_names(td, mem, OProxies, kp, names)
            each   == EachSingly(td, mem, OProxies, kp, names)
            before == NodeAt(mem, kp).children
        IN  /\ rn.mem = each.mem
            /\ rn.store = each.store
            /\ NodeAt(rn.mem, kp).children
                  = SelectSeq(before, LAMBDA e : e.k \notin NamesOf(names))
            /\ (\E i \in DOMAIN names : ~DHas(before, names[i]))
                  => \A j \in DOMAIN names : ~DHas(NodeAt(rn.mem, kp).children, names[j])
            /\ (\A i \in DOMAIN names : ~DHas(before, names[i])) => rn.err = ""

\* the names the model gives to the source DAT
DatNames == {"moved_dat"}

\* the calls of a reconcile, with operators renamed and destroyed outside
NextReconcile ==
    \/ \E kp \in ContainerPaths(mem), name \in {"items", "nest"}, b \in Batches :
          Add(kp, name, b)
    \/ \E kp \in ContainerPaths(mem), e \in ExtInputs : Extend(kp, e)
    \/ \E kp \in ContainerPaths(mem), name \in {"items"} \cup OpNames, cls \in PatchClasses :
          MonkeyPatch(kp, name, cls)
    \/ \E r \in OpIds, n \in OpNames : Rename(r, n)
    \/ \E n \in DatNames : Rename("D1", n)
    \/ \E r \in AllIds : Destroy(r)
    \/ \E kp \in ContainerPaths(mem) : Refresh(kp)
    \/ Restart

SpecReconcile == Init /\ [][NextReconcile]_vars

\* the extensions the model nests below extensions before a reconcile of an
\* extension: classes of the source, so that no two levels have one symbol
DeepExtInputs ==
    { [attr |-> "_sub", cls |-> c, func |-> None, dat |-> ObjItem("D1")] :
        c \in {"myClass", "helloWorld"} }

\* the calls on extensions, with the source DAT renamed outside
NextExtRefresh ==
    \/ \E kp \in ContainerPaths(mem), b \in Batches : Add(kp, "items", b)
    \/ \E kp \in ContainerPaths(mem), e \in ExtInputs : Extend(kp, e)
    \/ \E x \in LiveExtensions(mem), e \in DeepExtInputs : ExtExtend(x, e, DefaultMaxDepth)
    \/ \E n \in DatNames : Rename("D1", n)
    \/ \E x \in LiveExtensions(mem) : ExtRefresh(x)
    \/ \E kp \in ContainerPaths(mem) : Refresh(kp)

SpecExtRefresh == Init /\ [][NextExtRefresh]_vars

\* the calls on leaves, with operators renamed outside
NextLeafRefresh ==
    \/ \E kp \in ContainerPaths(mem), b \in Batches : Add(kp, "items", b)
    \/ \E lp \in LeafPaths(mem), e \in ExtInputs : LeafExtend(lp, e)
    \/ \E r \in OpIds, n \in OpNames : Rename(r, n)
    \/ \E kp \in ContainerPaths(mem) : Refresh(kp)
    \/ \E lp \in LeafPaths(mem) : LeafRefresh(lp)

SpecLeafRefresh == Init /\ [][NextLeafRefresh]_vars

\* a storage written by an earlier version of the program: the entries of
\* 'ops' are path strings, or records already, and the path of a string may
\* resolve or not
StoredEntries(r, loc) ==
    { StrItem(loc),
      StrItem(Loc("/project1", "missing")),
      [path |-> loc, op |-> r, extensions |-> <<>>, monkey_patch |-> NoPatch] }

StoredContainer(ops, children) ==
    [children |-> children, ops |-> ops, extensions |-> <<>>, monkey_patch |-> NoPatch]

OldStores ==
    { [children |->
          <<[k |-> "items",
             v |-> StoredContainer(<<[k |-> "op1", v |-> e1], [k |-> "nest", v |-> e2]>>,
                                   nested)]>>,
       extensions |-> <<>>] :
      e1 \in StoredEntries("R1", Loc("/project1", "op1")),
      e2 \in StoredEntries("R2", Loc("/project1", "nest")),
      nested \in { <<>>,
                   <<[k |-> "items",
                      v |-> StoredContainer(
                               <<[k |-> "op1", v |-> StrItem(Loc("/project1", "op1"))]>>,
                               <<>>)]>> } }

\* a project saved by an earlier version, before it is loaded
InitMigrate ==
    /\ td = [r \in AllIds |->
               IF r = "R1" THEN [name |-> "op1", comp |-> "/project1", valid |-> TRUE, type |-> "TOP"]
               ELSE IF r = "R2" THEN [name |-> "nest", comp |-> "/project1", valid |-> TRUE, type |-> "TOP"]
               ELSE [name |-> "extensions_for_tests", comp |-> "/project1", valid |-> TRUE, type |-> "textDAT"]]
    /\ renames = 0
    /\ mem = OProxyContainer(<<>>)
    /\ OProxies \in OldStores
    /\ last = [op |-> "init", err |-> "", log |-> ""]
    /\ steps = 0
    /\ restarts = 0
    /\ updating_storage = FALSE
    /\ frames = <<>>

\* operators are renamed and destroyed, the project is loaded (which
\* migrates), and the loaded tree is refreshed
NextMigrate ==
    \/ \E r \in OpIds, n \in OpNames : Rename(r, n)
    \/ \E r \in AllIds : Destroy(r)
    \/ Restart
    \/ \E kp \in ContainerPaths(mem) : restarts > 0 /\ Refresh(kp)

SpecMigrate == InitMigrate /\ [][NextMigrate]_vars

----------------------------------------------------------------------------
(* C31: the migration of the old storage format *)

\* what migrating the containers of old leaves in new: the same containers
\* in the same order; a record is kept as it is; a string whose path
\* resolves is a record of that path and operator under the same key; a
\* string whose path does not resolve has no entry
RECURSIVE MigratedFrom(_, _, _)
MigratedFrom(w, old, new) ==
    /\ DOMAIN new = DOMAIN old
    /\ \A i \in DOMAIN old :
          LET o == old[i].v
              n == new[i].v
          IN  /\ new[i].k = old[i].k
              /\ n.extensions = o.extensions
              /\ n.monkey_patch = o.monkey_patch
              /\ \A j \in DOMAIN n.ops : DHas(o.ops, n.ops[j].k)
              /\ \A j \in DOMAIN o.ops :
                    LET k == o.ops[j].k
                        v == o.ops[j].v
                    IN  IF ~is_str(v) THEN DHas(n.ops, k) /\ DGet(n.ops, k) = v
                        ELSE IF td_op(w, v.loc) = None THEN ~DHas(n.ops, k)
                        ELSE /\ DHas(n.ops, k)
                             /\ ~is_str(DGet(n.ops, k))
                             /\ DGet(n.ops, k).path = v.loc
                             /\ DGet(n.ops, k).op = td_op(w, v.loc)
              /\ MigratedFrom(w, o.children, n.children)

\* C31: after migrate no resource entry at any depth of the persisted map is
\* a bare locator string: an old entry whose locator resolves is a structured
\* entry under the same key, one whose locator does not resolve is absent,
\* structured entries are unchanged, and a second migrate changes nothing
C31_MigrateStructures ==
    LET m == migrate_storage_format(td, OProxies)
    IN  /\ ~check_for_old_format(m.children)
        /\ MigratedFrom(td, OProxies.children, m.children)
        /\ m.extensions = OProxies.extensions
        /\ migrate_storage_format(td, m) = m

\* a project in the old format was loaded: its storage was migrated, and the
\* entries that resolved are bound in the tree
C31_Witness ==
    /\ last.op = "restart"
    /\ last.log = "Storage migration completed"
    /\ ~check_for_old_format(OProxies.children)
    /\ \E lp \in LeafPaths(mem) : NodeAt(mem, lp).op = "R1"

----------------------------------------------------------------------------
(* root._update_storage, statement by statement.  The program is single    *)
(* threaded: a second call of _update_storage can only start inside a      *)
(* setItem of the running one, from what depends on the storage item.      *)
(* The children of the model are never named '_updating_storage', so       *)
(* hasattr(self, '_updating_storage') is answered by the attribute alone.  *)

\* a call of _update_storage: where it is, the container_data it built, the
\* exception it is raising, and how many calls started inside it and returned
Frame(pc, data, err, calls) == [pc |-> pc, data |-> data, err |-> err, calls |-> calls]

\* the frame on top moves on
Goto(f) == [frames EXCEPT ![Len(frames)] = f]

\* the frame on top returns to its caller
Popped ==
    IF Len(frames) = 1 THEN <<>>
    ELSE [Front(frames) EXCEPT ![Len(frames) - 1].calls = @ + 1]

Returned(err, log) == [op |-> "update_storage", err |-> err, log |-> log]

\* an except clause that leaves the guard as it is
SyncExceptKeepsGuard ==
    /\ frames # <<>>
    /\ Last(frames).pc = "except"
    /\ frames' = IF Len(frames) = 1 THEN <<>>
                  ELSE [Front(frames) EXCEPT ![Len(frames) - 1] =
                           Frame("except", <<>>, Last(frames).err, frames[Len(frames) - 1].calls)]
    /\ last' = Returned(Last(frames).err, "Failed to update storage")
    /\ UNCHANGED <<td, renames, mem, OProxies, steps, restarts, updating_storage>>

\* root._update_storage() is called: by the program when no call is
\* running, or from inside a setItem of the running call
SyncStart ==
    /\ frames # <<>> => /\ Last(frames).pc \in {"children_set", "extensions_set"}
                         /\ Last(frames).calls < MaxCallbacks
    /\ frames' = Append(frames, Frame("check", <<>>, "", 0))
    /\ UNCHANGED <<td, renames, mem, OProxies, last, steps, restarts, updating_storage>>

\* "if hasattr(self, '_updating_storage') and self._updating_storage: return"
\* and "self._updating_storage = True"
SyncCheck ==
    /\ frames # <<>>
    /\ Last(frames).pc = "check"
    /\ IF updating_storage
       THEN /\ frames' = Popped
            /\ last' = Returned("", "")
            /\ UNCHANGED updating_storage
       ELSE /\ updating_storage' = TRUE
            /\ frames' = Goto(Frame("build", <<>>, "", 0))
            /\ UNCHANGED last
    /\ UNCHANGED <<td, renames, mem, OProxies, steps, restarts>>

\* "container_data = self._build_storage_structure()"
SyncBuild ==
    /\ frames # <<>>
    /\ Last(frames).pc = "build"
    /\ frames' = Goto(IF ~ops_valid(td, mem) THEN Frame("except", <<>>, "tdError", 0)
                      ELSE IF ~build_ok(mem) THEN Frame("except", <<>>, "AttributeError", 0)
                      ELSE Frame("set_children", build_storage_structure(td, mem), "", 0))
    /\ UNCHANGED <<td, renames, mem, OProxies, last, steps, restarts, updating_storage>>

\* "self.OProxies.setItem('children', container_data)"
SyncSetChildren ==
    /\ frames # <<>>
    /\ Last(frames).pc = "set_children"
    /\ OProxies' = [OProxies EXCEPT !.children = Last(frames).data]
    /\ frames' = Goto(Frame("children_set", <<>>, "", 0))
    /\ UNCHANGED <<td, renames, mem, last, steps, restarts, updating_storage>>

\* "self.OProxies.setItem('extensions', {name: {...} for name, ext in
\* self._extensions.items()})"; the dict raises for a value that is not an
\* OProxyExtension
SyncSetExtensions ==
    /\ frames # <<>>
    /\ Last(frames).pc = "children_set"
    /\ IF exts_ok(mem.extensions)
       THEN /\ OProxies' = [OProxies EXCEPT !.extensions = ext_storage(mem.extensions)]
            /\ frames' = Goto(Frame("extensions_set", <<>>, "", 0))
       ELSE /\ frames' = Goto(Frame("except", <<>>, "AttributeError", 0))
            /\ UNCHANGED OProxies
    /\ UNCHANGED <<td, renames, mem, last, steps, restarts, updating_storage>>

\* "self._updating_storage = False", and the call returns
SyncClear ==
    /\ frames # <<>>
    /\ Last(frames).pc = "extensions_set"
    /\ updating_storage' = FALSE
    /\ frames' = Popped
    /\ last' = Returned("", "")
    /\ UNCHANGED <<td, renames, mem, OProxies, steps, restarts>>

\* "except Exception as e: if hasattr(self, '_updating_storage'):
\* self._updating_storage = False; Log(...); raise": the exception goes to the
\* caller, which is the program or a setItem of the call below
SyncExcept ==
    /\ frames # <<>>
    /\ Last(frames).pc = "except"
    /\ updating_storage' = FALSE
    /\ frames' = IF Len(frames) = 1 THEN <<>>
                  ELSE [Front(frames) EXCEPT ![Len(frames) - 1] =
                           Frame("except", <<>>, Last(frames).err, frames[Len(frames) - 1].calls)]
    /\ last' = Returned(Last(frames).err, "Failed to update storage")
    /\ UNCHANGED <<td, renames, mem, OProxies, steps, restarts>>

\* a tree with extensions is built, refreshed and synchronized, and
\* operators are destroyed
NextSync ==
    \/ \E kp \in ContainerPaths(mem), b \in Batches : Add(kp, "items", b)
    \/ \E kp \in ContainerPaths(mem), e \in ExtInputs : Extend(kp, e)
    \/ \E kp \in ContainerPaths(mem) : Refresh(kp)
    \/ \E r \in AllIds : Destroy(r)
    \/ SyncStart
    \/ SyncCheck
    \/ SyncBuild
    \/ SyncSetChildren
    \/ SyncSetExtensions
    \/ SyncClear
    \/ SyncExcept

SpecSync == Init /\ [][NextSync]_vars

----------------------------------------------------------------------------
(* C32: the guard of the synchronization *)

\* the positions of a call between setting the guard and clearing it
Running == {"build", "set_children", "children_set", "extensions_set", "except"}

\* C32: a synchronization that starts while the guard is set returns without
\* writing anything; the guard is set only while a synchronization is running
\* (one whose call set it and has not returned), and it is clear after every
\* synchronization, whether it completed or raised
C32_GuardedSync ==
    /\ [](updating_storage =>
             Cardinality({i \in DOMAIN frames : frames[i].pc \in Running}) = 1)
    /\ [](frames = <<>> => ~updating_storage)
    /\ [][ /\ (frames # <<>> /\ Last(frames).pc = "check" /\ updating_storage
                /\ frames' # frames)
               => (Len(frames') = Len(frames) - 1 /\ OProxies' = OProxies
                   /\ mem' = mem /\ updating_storage')
           /\ (frames # <<>> /\ Last(frames).pc \in Running
                /\ Len(frames') < Len(frames))
               => ~updating_storage' ]_vars

\* a second synchronization started inside the setItem of a running one and
\* returned: the guard is still set, and the extensions have not been written
C32_Witness ==
    /\ frames # <<>>
    /\ Last(frames).pc = "children_set"
    /\ Last(frames).calls > 0
    /\ last = Returned("", "")
    /\ updating_storage
    /\ OProxies.children # <<>>

\* a tree with extensions and replaced classes is built, refreshed, and
\* cleared from the root or from a node below it
NextClear ==
    \/ \E kp \in ContainerPaths(mem), b \in Batches : Add(kp, "items", b)
    \/ \E kp \in ContainerPaths(mem), e \in ExtInputs : Extend(kp, e)
    \/ \E kp \in ContainerPaths(mem), name \in Names \cup OpNames, cls \in PatchClasses :
          MonkeyPatch(kp, name, cls)
    \/ \E kp \in ContainerPaths(mem) : Refresh(kp)
    \/ \E r \in AllIds : Destroy(r)
    \/ \E p \in ContainerPaths(mem) \cup LeafPaths(mem) : Clear(p)

SpecClear == Init /\ [][NextClear]_vars

----------------------------------------------------------------------------
(* C33: clear *)

\* C33: after clear, called on the root or on any container or resource
\* binding below it, the root has no children and no extensions, and the
\* persisted map equals its default value
C33_ClearEmpties ==
    \A p \in ContainerPaths(mem) \cup LeafPaths(mem) :
        LET r == wrapper_clear(td, mem, OProxies, p)
        IN  /\ r.err = ""
            /\ r.mem.children = <<>>
            /\ r.mem.extensions = <<>>
            /\ r.store = [children |-> <<>>, extensions |-> <<>>]

\* clear was called on a node below the root, so the root had a child, and it
\* has none now
C33_Witness ==
    /\ last = [op |-> "clear", err |-> "", log |-> "_clear operation completed"]
    /\ mem = OProxyContainer(<<>>)
    /\ OProxies = [children |-> <<>>, extensions |-> <<>>]

----------------------------------------------------------------------------
(* C21: what a monkey patch preserves *)

\* the source of the classes that the model patches with
PatchSource == StrItem(Loc("/project1", "extensions_for_tests"))

\* the keys of a child map with the operators they are bound to, and the
\* keys of an extension map, in the order of the maps
ChildBindings(children) ==
    [i \in DOMAIN children |-> [k |-> children[i].k, op |-> children[i].v.op]]

KeysInOrder(entries) == [i \in DOMAIN entries |-> entries[i].k]

\* C21: after a monkey patch of child C of a container, the replacement is
\* under the key of C, at its place, with the path and the parent of C; it
\* has the child keys of C bound to the same operators and the extension
\* keys of C; and the parent reference of each of those children and
\* extensions is the replacement.
C21_PatchPreserves ==
    \A kp \in ContainerPaths(mem), cls \in PatchClasses :
        \A name \in DKeys(NodeAt(mem, kp).children) :
            LET r == monkey_patch(td, mem, OProxies, kp, name, cls, PatchSource)
                C == DGet(NodeAt(mem, kp).children, name)
                after == NodeAt(r.mem, kp).children
                new == DGet(after, name)
            IN  r.err = "" =>
                  /\ KeysInOrder(after) = KeysInOrder(NodeAt(mem, kp).children)
                  /\ new.monkey_patch.cls = cls
                  /\ new.kind = C.kind /\ new.op = C.op
                  /\ new.path = C.path /\ new.parent = C.parent
                  /\ ChildBindings(new.children) = ChildBindings(C.children)
                  /\ KeysInOrder(new.extensions) = KeysInOrder(C.extensions)
                  /\ \A i \in DOMAIN new.children : new.children[i].v.parent = Holder
                  /\ \A i \in DOMAIN new.extensions : new.extensions[i].v.parent = Holder

\* a container with resource bindings and an extension was monkey-patched
C21_Witness ==
    /\ last.op = "monkey_patch"
    /\ last.err = ""
    /\ last.log = "Monkey-patched"
    /\ \E i \in DOMAIN mem.children :
          /\ mem.children[i].v.monkey_patch # NoPatch
          /\ mem.children[i].v.children # <<>>
          /\ mem.children[i].v.extensions # <<>>

----------------------------------------------------------------------------
(* C22: a second monkey patch *)

\* the children of the container at kp that carry a monkey-patch record
Patched(root, kp) ==
    {k \in DKeys(NodeAt(root, kp).children) :
        DGet(NodeAt(root, kp).children, k).monkey_patch # NoPatch}

\* C22: a monkey patch of a child that has been monkey-patched is rejected
\* with an error and changes neither the tree nor the persisted map.
C22_RepatchRejected ==
    \A kp \in ContainerPaths(mem), cls \in PatchClasses :
        \A name \in Patched(mem, kp) :
            LET r == monkey_patch(td, mem, OProxies, kp, name, cls, PatchSource)
            IN  r.err # "" /\ Untouched(r)

\* C22 (amended): a monkey patch with a name that is the name of an
\* extension of the container is rejected with NotImplementedError and
\* changes neither the tree nor the persisted map; a monkey patch of a child
\* that has been monkey-patched, under a name that is no extension, is not
\* rejected so, and when it returns the child carries the record of the new
\* class.
C22_ExtensionNameRejected ==
    \A kp \in ContainerPaths(mem), cls \in PatchClasses :
        /\ \A name \in DKeys(NodeAt(mem, kp).extensions) :
              LET r == monkey_patch(td, mem, OProxies, kp, name, cls, PatchSource)
              IN  r.err = "NotImplementedError" /\ r.log = ExtensionPatch /\ Untouched(r)
        /\ \A name \in Patched(mem, kp) \ DKeys(NodeAt(mem, kp).extensions) :
              LET r == monkey_patch(td, mem, OProxies, kp, name, cls, PatchSource)
              IN  /\ r.err # "NotImplementedError"
                  /\ r.err = "" =>
                        DGet(NodeAt(r.mem, kp).children, name).monkey_patch.cls = cls

\* a monkey patch was rejected for the name of an extension, in a tree that
\* has a monkey-patched child
C22_Witness ==
    /\ last.op = "monkey_patch"
    /\ last.err = "NotImplementedError"
    /\ last.log = ExtensionPatch
    /\ \E kp \in ContainerPaths(mem) : Patched(mem, kp) # {}

----------------------------------------------------------------------------
(* C23: a monkey patch after a reconcile *)

\* the monkey-patch record persisted for child name of the container at kp
StoredPatch(store, kp, name) ==
    LET data == IF kp = <<>> THEN [children |-> store.children, ops |-> <<>>]
                ELSE stored_at(store.children, kp).data
    IN  IF DHas(data.children, name) THEN DGet(data.children, name).monkey_patch
        ELSE IF DHas(data.ops, name) THEN DGet(data.ops, name).monkey_patch
        ELSE NoPatch

\* the record that child name of the container at kp carries in the tree
PatchIn(root, kp, name) ==
    IF HasAt(root, kp) /\ DHas(NodeAt(root, kp).children, name)
    THEN DGet(NodeAt(root, kp).children, name).monkey_patch
    ELSE NoPatch

\* C23: a monkey-patched child, container or leaf, whose source still gives
\* the class carries its monkey-patch record again after a reconcile of the
\* root and after a restart, and its persisted entry still carries it.
C23_PatchSurvivesReconcile ==
    \A kp \in ContainerPaths(mem) :
        \A name \in Patched(mem, kp) :
            LET rec == PatchIn(mem, kp, name)
                r1  == refresh(td, mem, OProxies, <<>>)
                r2  == restart(td, OProxies)
            IN  (StoredPatch(OProxies, kp, name) = rec
                   /\ Main(td, rec.cls, None, StrItem(rec.dat)).ok)
                => /\ PatchIn(r1.mem, kp, name) = rec
                   /\ StoredPatch(r1.store, kp, name) = rec
                   /\ PatchIn(r2.mem, kp, name) = rec
                   /\ StoredPatch(r2.store, kp, name) = rec

----------------------------------------------------------------------------
(* C24: how a reconcile resolves the persisted resource entries *)

\* the operator a persisted entry stands for: the one at its locator,
\* otherwise the persisted handle if that is still valid, otherwise None
EntryOperator(w, op_info) ==
    IF td_op(w, op_info.path) # None THEN td_op(w, op_info.path)
    ELSE IF w[op_info.op].valid THEN op_info.op
    ELSE None

\* the containers at kp and below, in the tree and in the persisted map
Below(root, kp) == {cp \in ContainerPaths(root) : cp = kp \/ IsPrefix(kp, cp)}

\* reconcile r of the container at kp has treated the persisted resource
\* entries of the container at cp as C24 says
ResolvedAsPersisted(w, store, r, cp) ==
    LET ops == StoredOpsMap(store, cp)
    IN  \A i \in DOMAIN ops :
            LET op == EntryOperator(w, ops[i].v)
            IN  IF op # None
                THEN /\ HasAt(r.mem, cp)
                     /\ DHas(NodeAt(r.mem, cp).children, w[op].name)
                     /\ DGet(NodeAt(r.mem, cp).children, w[op].name).op = op
                ELSE /\ HasAt(r.mem, cp) =>
                          \A j \in DOMAIN NodeAt(r.mem, cp).children :
                              NodeAt(r.mem, cp).children[j].v.op # ops[i].v.op
                     /\ \A j \in DOMAIN StoredOpsMap(r.store, cp) :
                              StoredOpsMap(r.store, cp)[j].v.op # ops[i].v.op

\* C24: in a reconcile every persisted resource entry of a reconciled
\* container is resolved by its locator first and by its persisted handle
\* second, and is bound again when one of them gives an operator; when
\* neither does, no binding to its operator is in the child map or in the
\* persisted map after the reconcile.
C24_EntriesResolvedOrDropped ==
    \A kp \in ContainerPaths(mem) :
        LET r == refresh(td, mem, OProxies, kp)
        IN  \A cp \in Below(mem, kp) : ResolvedAsPersisted(td, OProxies, r, cp)

----------------------------------------------------------------------------
(* C25: one entry that cannot be rebuilt *)

\* a persisted monkey-patch record is absent or its class can be extracted
Extractable(w, rec) ==
    rec = NoPatch \/ Main(w, rec.cls, None, StrItem(rec.dat)).ok

\* the persisted containers directly below the root that can be rebuilt, and
\* for each the operators of its persisted resource entries that can
RebuildableContainers(w, store) ==
    {store.children[i].k : i \in {j \in DOMAIN store.children :
                                     Extractable(w, store.children[j].v.monkey_patch)}}

RebuildableOps(w, data) ==
    {EntryOperator(w, data.ops[i].v) :
        i \in {j \in DOMAIN data.ops :
                  /\ EntryOperator(w, data.ops[j].v) # None
                  /\ Extractable(w, data.ops[j].v.monkey_patch)}}

\* C25: a restart returns without raising, and although an entry of the
\* persisted map cannot be rebuilt, every persisted container below the root
\* that can be rebuilt is in the tree afterwards, with a binding for each of
\* its persisted resource entries that can be rebuilt.
C25_FailureSparesSiblings ==
    LET r == restart(td, OProxies)
    IN  /\ r.err = ""
        /\ \A name \in RebuildableContainers(td, OProxies) :
              /\ DHas(r.mem.children, name)
              /\ \A op \in RebuildableOps(td, DGet(OProxies.children, name)) :
                    \E j \in DOMAIN DGet(r.mem.children, name).children :
                        DGet(r.mem.children, name).children[j].v.op = op

----------------------------------------------------------------------------
(* C26: a reconcile whose closing synchronization fails *)

\* the class of every monkey-patch record of the persisted map can be
\* extracted, so that no rebuilding of a child raises
RECURSIVE AllExtractable(_, _)
AllExtractable(w, children_data) ==
    \A i \in DOMAIN children_data :
        /\ Extractable(w, children_data[i].v.monkey_patch)
        /\ \A j \in DOMAIN children_data[i].v.ops :
              Extractable(w, children_data[i].v.ops[j].v.monkey_patch)
        /\ AllExtractable(w, children_data[i].v.children)

\* C26: when the synchronization of the persisted map that ends a reconcile
\* fails, the reconcile raises to its caller.
C26_SyncFailureRaised ==
    \A kp \in ContainerPaths(mem) :
        LET r == refresh(td, mem, OProxies, kp)
        IN  (AllExtractable(td, OProxies.children)
               /\ update_storage(td, r.mem, r.store).err # "")
            => r.err # ""

----------------------------------------------------------------------------
(* C27: the nested records of a reconciled extension *)

\* the record at p of a persisted extension map and every record above it
\* have a source that resolves
ChainResolves(w, stored, p) ==
    \A k \in 1..Len(p) : SourceResolves(w, ExtAt(stored, SubSeq(p, 1, k)))

\* C27: after a reconcile of an extension, every nested-extension record
\* persisted below it, at every depth and whatever its owner is, whose
\* source resolves is again an extension in the rebuilt nested maps, so that
\* a synchronization after it keeps the record in the persisted map.
C27_NestedRecordsRestored ==
    \A x \in LiveExtensions(mem) :
        LET stored == StoredExtensions(OProxies, x.np)
            r      == ext_refresh(td, mem, OProxies, x.np, x.ep)
            s      == update_storage(td, r.mem, r.store)
        IN  ExtHas(stored, x.ep) =>
              \A p \in ExtPaths(ExtAt(stored, x.ep).extensions) :
                  ChainResolves(td, ExtAt(stored, x.ep).extensions, p)
                  => /\ ExtHas(NodeAt(r.mem, x.np).extensions, x.ep \o p)
                     /\ ~ExtAt(NodeAt(r.mem, x.np).extensions, x.ep \o p).raw
                     /\ s.err = "" => ExtHas(StoredExtensions(s.store, x.np), x.ep \o p)

----------------------------------------------------------------------------
(* C28: the source of an extension renamed *)

\* the operator that is the source of extension e
SourceOf(w, e) ==
    resolve_stored_op(w, [path |-> e.metadata.dat_path, op |-> e.metadata.dat_op])

\* C28: after a reconcile of an extension whose source DAT was renamed
\* outside, the locator in the metadata of the extension is the current
\* locator of the source, in the tree and in the persisted map.
C28_RenamedSourceTracked ==
    \A x \in LiveExtensions(mem) :
        LET e   == ExtAt(NodeAt(mem, x.np).extensions, x.ep)
            dat == SourceOf(td, e)
            r   == ext_refresh(td, mem, OProxies, x.np, x.ep)
        IN  (dat # None /\ e.metadata.dat_path # path_of(td, dat))
            => /\ ExtHas(NodeAt(r.mem, x.np).extensions, x.ep)
               /\ ExtAt(NodeAt(r.mem, x.np).extensions, x.ep).metadata.dat_path
                     = path_of(td, dat)
               /\ ExtHas(StoredExtensions(r.store, x.np), x.ep)
               /\ ExtAt(StoredExtensions(r.store, x.np), x.ep).metadata.dat_path
                     = path_of(td, dat)

----------------------------------------------------------------------------
(* C29: a reconcile of a container below the root *)

\* the persisted resource entries of a map as the set of their keys with
\* their operators, and what a reconcile is to make of them: the entries
\* that resolve, each under the current name of its operator
BindingSet(ops) == {[k |-> ops[i].k, op |-> ops[i].v.op] : i \in DOMAIN ops}

CorrectedBindings(w, ops) ==
    {[k |-> w[EntryOperator(w, ops[i].v)].name, op |-> EntryOperator(w, ops[i].v)] :
        i \in {j \in DOMAIN ops : EntryOperator(w, ops[j].v) # None}}

\* the containers, resource keys, extension keys and monkey-patch records
\* of the persisted map that are not inside the container at kp
Outside(store, kp) ==
    {e \in StoreOutline(store) : ~(e.at = kp \/ IsPrefix(kp, e.at))}

\* C29: a reconcile of a container below the root, when a persisted
\* resource entry of it has to be re-keyed or dropped, ends with the
\* persisted map of the root holding the corrected entries of that
\* container, and with the entries outside that container as they were.
C29_SubtreeReconcilePersisted ==
    \A kp \in ContainerPaths(mem) \ {<<>>} :
        LET ops == StoredOpsMap(OProxies, kp)
            r   == refresh(td, mem, OProxies, kp)
        IN  BindingSet(ops) # CorrectedBindings(td, ops)
            => /\ BindingSet(StoredOpsMap(r.store, kp)) = CorrectedBindings(td, ops)
               /\ Outside(r.store, kp) = Outside(OProxies, kp)

----------------------------------------------------------------------------
(* C30: a reconcile of one resource binding *)

\* the operators as they are, and as they are after one more operator has
\* been renamed outside
OneMoreRenamed(w) ==
    {w} \cup {[w EXCEPT ![r].name = n] :
                r \in {x \in OpIds : w[x].valid},
                n \in {m \in OpNames : td_op(w, Loc("/project1", m)) = None}}

\* entries with the key at position i replaced by name
KeysWith(entries, i, name) ==
    [j \in DOMAIN entries |->
        [k |-> IF j = i THEN name ELSE entries[j].k, op |-> entries[j].v.op]]

\* C30: a reconcile of one resource binding whose operator was renamed puts
\* that binding under the current name of its operator, at the place it
\* had, in the child map and in the persisted map, and leaves the keys of
\* its siblings as they were, also when the operator of a sibling was
\* renamed as well.
C30_LeafReconcileRekeysOne ==
    \A lp \in LeafPaths(mem), w \in OneMoreRenamed(td) :
        LET children == NodeAt(mem, Front(lp)).children
            i    == CHOOSE j \in DOMAIN children : children[j].k = Last(lp)
            self == children[i].v
            r    == leaf_refresh(w, mem, OProxies, lp)
        IN  (w[self.op].valid /\ w[self.op].name # Last(lp)
               /\ ~DHas(children, w[self.op].name)
               /\ Bindings(StoredOpsMap(OProxies, Front(lp))) = Bindings(LeafEntries(NodeAt(mem, Front(lp)))))
            => /\ Bindings(NodeAt(r.mem, Front(lp)).children)
                     = KeysWith(children, i, w[self.op].name)
               /\ Bindings(StoredOpsMap(r.store, Front(lp)))
                     = KeysWith(LeafEntries(NodeAt(mem, Front(lp))),
                                CHOOSE j \in DOMAIN LeafEntries(NodeAt(mem, Front(lp))) :
                                    LeafEntries(NodeAt(mem, Front(lp)))[j].k = Last(lp),
                                w[self.op].name)

----------------------------------------------------------------------------
(* C34: what a reconcile removes *)

\* reconcile r of the container at kp has kept the binding at lp: the
\* container of the binding holds a binding to the same operator under the
\* name the operator has now
KeptUnderCurrentName(w, root, r, lp) ==
    LET op == NodeAt(root, lp).op
        cp == Front(lp)
    IN  /\ HasAt(r.mem, cp)
        /\ DHas(NodeAt(r.mem, cp).children, w[op].name)
        /\ DGet(NodeAt(r.mem, cp).children, w[op].name).kind = "leaf"
        /\ DGet(NodeAt(r.mem, cp).children, w[op].name).op = op

\* C34: a reconcile removes a resource binding from a container only when
\* neither the locator nor the handle of its entry resolves: every binding of
\* a reconciled container whose operator is valid is in the child map of that
\* container afterwards, under the current name of the operator, also when a
\* rename has given two entries of the container the same name
C34_ValidBindingsKept ==
    \A kp \in ContainerPaths(mem) :
        LET r == refresh(td, mem, OProxies, kp)
        IN  \A lp \in LeafPaths(mem) :
                (Front(lp) \in Below(mem, kp) /\ td[NodeAt(mem, lp).op].valid)
                    => KeptUnderCurrentName(td, mem, r, lp)

----------------------------------------------------------------------------
(* C35: the resource of a binding that survives a reconcile *)

\* the handles persisted for the resource entries of the container at cp
PersistedHandles(store, cp) ==
    {StoredOpsMap(store, cp)[j].v.op : j \in DOMAIN StoredOpsMap(store, cp)}

\* C35: a reconcile never changes which operator a binding refers to: every
\* resource binding of a reconciled container after the reconcile refers to
\* an operator whose handle was persisted for an entry of that container
\* before it, also when another valid operator has taken the name that the
\* locator of an entry gives
C35_ReconcileKeepsResource ==
    \A w \in OneMoreRenamed(td), kp \in ContainerPaths(mem) :
        LET r == refresh(w, mem, OProxies, kp)
        IN  \A cp \in Below(mem, kp) :
                (/\ HasAt(r.mem, cp)
                 /\ Bindings(StoredOpsMap(OProxies, cp))
                        = Bindings(LeafEntries(NodeAt(mem, cp))))
                => \A e \in {LeafEntries(NodeAt(r.mem, cp))[j] :
                                j \in DOMAIN LeafEntries(NodeAt(r.mem, cp))} :
                       e.v.op \in PersistedHandles(OProxies, cp)

----------------------------------------------------------------------------
(* C36: what the extension maps hold *)

\* C36: in every reachable state every value of the extension map of every
\* container, resource binding and extension is an OProxyExtension, never a
\* stored record, so that the next synchronization of the tree does not fail
\* on an extension map
C36_ExtensionMapsHoldBindings ==
    /\ \A np \in ContainerPaths(mem) \cup LeafPaths(mem) :
          \A ep \in ExtPaths(NodeAt(mem, np).extensions) :
              ~ExtAt(NodeAt(mem, np).extensions, ep).raw
    /\ update_storage(td, mem, OProxies).err # "AttributeError"

----------------------------------------------------------------------------
(* C37: the names of children and of extensions *)

\* C37: in every reachable state the child names and the extension names of
\* each container are disjoint: neither extend with the name of a child nor
\* add with the name of an extension makes a name denote both
C37_ChildAndExtensionNamesDisjoint ==
    \A kp \in ContainerPaths(mem) :
        DKeys(NodeAt(mem, kp).children) \cap DKeys(NodeAt(mem, kp).extensions) = {}

----------------------------------------------------------------------------
(* C38: the paths of the nodes *)

\* C38: in every reachable state the path of every container is the sequence
\* of child-map keys that leads from the root to it, with no empty segment,
\* and the path of every resource binding is the path of its container
\* followed by its own key
C38_PathsFollowKeys ==
    /\ \A kp \in ContainerPaths(mem) :
          /\ NodeAt(mem, kp).path = kp
          /\ \A i \in DOMAIN NodeAt(mem, kp).path : NodeAt(mem, kp).path[i] # ""
    /\ \A lp \in LeafPaths(mem) :
          NodeAt(mem, lp).path = Append(NodeAt(mem, Front(lp)).path, Last(lp))

----------------------------------------------------------------------------
(* C39: ownership *)

----------------------------------------------------------------------------
(* C40: a reconcile of the root, twice *)

\* a tree with extensions is built; operators are renamed and destroyed
\* outside; the root is reconciled
NextRootRefresh ==
    \/ \E kp \in ContainerPaths(mem), b \in Batches : Add(kp, "items", b)
    \/ \E kp \in ContainerPaths(mem), e \in ExtInputs : Extend(kp, e)
    \/ \E r \in OpIds, n \in OpNames : Rename(r, n)
    \/ \E r \in AllIds : Destroy(r)
    \/ Refresh(<<>>)

SpecRootRefresh == Init /\ [][NextRootRefresh]_vars

\* the operators of the stored entries have been renamed or destroyed: a
\* reconcile has something to correct
Stale(w, store) ==
    \E cp \in ContainerPaths(mem) \ {<<>>} :
        \E j \in DOMAIN StoredOpsMap(store, cp) :
            LET e == StoredOpsMap(store, cp)[j]
            IN  ~w[e.v.op].valid \/ w[e.v.op].name # e.k

\* C40: a reconcile of the root run twice in a row, with nothing changed
\* outside and no other call in between, leaves the tree and the persisted
\* map that one run leaves; so does the reconcile of a newly constructed root
C40_RootReconcileIdempotent ==
    LET once    == refresh(td, mem, OProxies, <<>>)
        twice   == refresh(td, once.mem, once.store, <<>>)
        loaded  == restart(td, OProxies)
        again   == refresh(td, loaded.mem, loaded.store, <<>>)
    IN  /\ twice.mem = once.mem
        /\ twice.store = once.store
        /\ again.mem = loaded.mem
        /\ again.store = loaded.store

\* the root was reconciled after an operator was renamed, and the binding is
\* under the new name in the tree and in the persisted map
C40_Witness ==
    /\ last.op = "refresh"
    /\ renames > 0
    /\ HasAt(mem, <<"items", "changed1">>)
    /\ DHas(StoredOpsMap(OProxies, <<"items">>), "changed1")
    /\ ~Stale(td, OProxies)

====
